---- MODULE Spec2Model ----
(***************************************************************************)
(* Model of the voice loan pre-approval bot (src/bot.py): the transcript   *)
(* poller monitor_messages, the persona switch, the two latched side       *)
(* effects and the text extractors they rely on.                           *)
(*                                                                         *)
(* Text is a sequence of one-character strings.  A regular expression of   *)
(* the source is a tree of the constructors below, and Ends gives the end  *)
(* positions of its matches from one start position in the order Python's  *)
(* backtracking matcher tries them, so that the first one is the match     *)
(* re.search / re.sub / re.findall report.                                 *)
(***************************************************************************)
EXTENDS Integers, Sequences, FiniteSets, TLC

-----------------------------------------------------------------------------
(* Characters *)

LowerLetters == {"a","b","c","d","e","f","g","h","i","j","k","l","m","n","o","p","q","r","s","t","u","v","w","x","y","z"}

UpperLetters == {"A","B","C","D","E","F","G","H","I","J","K","L","M","N","O","P","Q","R","S","T","U","V","W","X","Y","Z"}

Digits == {"0","1","2","3","4","5","6","7","8","9"}

Letters == LowerLetters \cup UpperLetters

\* \w
WordChars == Letters \cup Digits \cup {"_"}

\* \s (the transcripts of the model hold no other blank than the space)
Whitespace == {" "}

Punctuation == {".", ",", "'", "@", "_", "-", "+", "%", "?", "!", ":", "/", "=", "&"}

\* what "." of a pattern matches (any character but a newline)
AnyChar == Letters \cup Digits \cup Whitespace \cup Punctuation

LowerOf ==
    [c \in UpperLetters |->
       CASE c = "A" -> "a" [] c = "B" -> "b" [] c = "C" -> "c" [] c = "D" -> "d"
         [] c = "E" -> "e" [] c = "F" -> "f" [] c = "G" -> "g" [] c = "H" -> "h"
         [] c = "I" -> "i" [] c = "J" -> "j" [] c = "K" -> "k" [] c = "L" -> "l"
         [] c = "M" -> "m" [] c = "N" -> "n" [] c = "O" -> "o" [] c = "P" -> "p"
         [] c = "Q" -> "q" [] c = "R" -> "r" [] c = "S" -> "s" [] c = "T" -> "t"
         [] c = "U" -> "u" [] c = "V" -> "v" [] c = "W" -> "w" [] c = "X" -> "x"
         [] c = "Y" -> "y" [] c = "Z" -> "z"]

\* the value of e, worked out once and handed to Body
With(e, Body(_)) == CHOOSE v \in {Body(x) : x \in {e}} : TRUE

\* the sequence s with its elements worked out, for TLC not to work them out
\* again at each use
Tuple(s) == s \o <<>>

Min(S) == CHOOSE a \in S : \A b \in S : a <= b

Max(S) == CHOOSE a \in S : \A b \in S : a >= b

\* the sequences of ss, one after the other
RECURSIVE ConcatFrom(_, _)
ConcatFrom(ss, k) == IF k > Len(ss) THEN <<>> ELSE ss[k] \o ConcatFrom(ss, k + 1)

Concat(ss) == With(Tuple(ss), LAMBDA parts : ConcatFrom(parts, 1))

\* str.lower()
lower(s) == Tuple([i \in 1..Len(s) |-> IF s[i] \in UpperLetters THEN LowerOf[s[i]] ELSE s[i]])

\* str.strip()
strip(s) ==
    With({i \in 1..Len(s) : s[i] \notin Whitespace}, LAMBDA keep :
        IF keep = {} THEN <<>> ELSE SubSeq(s, Min(keep), Max(keep)))

\* needle in haystack
contains(haystack, needle) ==
    \E p \in 1..(Len(haystack) - Len(needle) + 1) :
        \A k \in 1..Len(needle) : haystack[p + k - 1] = needle[k]

\* " ".join(parts)
join(parts) ==
    Concat([k \in 1..Len(parts) |-> IF k = 1 THEN parts[k] ELSE <<" ">> \o parts[k]])

-----------------------------------------------------------------------------
(* Regular expressions (Python's re) *)

Ch(S) == [t |-> "set", cs |-> S]

Lit(w) == [t |-> "lit", w |-> w]

Cat(rs) == [t |-> "cat", rs |-> rs]

Alt(rs) == [t |-> "alt", rs |-> rs]

\* r{lo,hi}, greedy; hi = -1 for no upper limit
Rep(r, lo, hi) == [t |-> "rep", r |-> r, lo |-> lo, hi |-> hi]

Opt(r) == Rep(r, 0, 1)

Star(r) == Rep(r, 0, -1)

Plus(r) == Rep(r, 1, -1)

\* \b
WB == [t |-> "wb"]

\* ^
BOS == [t |-> "bos"]

\* \s+ and \s*
WS1 == Plus(Ch(Whitespace))

WS0 == Star(Ch(Whitespace))

IsWordAt(s, i) == i >= 1 /\ i <= Len(s) /\ s[i] \in WordChars

\* length of the run of characters of S that starts at position i
RunLen(S, s, i) ==
    With({j \in i..(Len(s) + 1) : j = Len(s) + 1 \/ s[j] \notin S}, LAMBDA stops :
        Min(stops) - i)

\* a repeated character class: the longest run first, then one character less, ...
EndsRun(r, s, i) ==
    With(RunLen(r.r.cs, s, i), LAMBDA n :
        With(IF r.hi >= 0 /\ r.hi < n THEN r.hi ELSE n, LAMBDA top :
            [k \in 1..(IF top >= r.lo THEN top - r.lo + 1 ELSE 0) |-> i + top - k + 1]))

RECURSIVE Ends(_, _, _), EndsCat(_, _, _, _), EndsAlt(_, _, _, _), EndsRep(_, _, _, _)

\* rs[j] first, and each of its ends, in order, continued by rs[j+1], ...
EndsCat(rs, j, s, i) ==
    IF j > Len(rs) THEN <<i>>
    ELSE With(Ends(rs[j], s, i), LAMBDA es :
             Concat([k \in 1..Len(es) |-> EndsCat(rs, j + 1, s, es[k])]))

EndsAlt(rs, j, s, i) ==
    IF j > Len(rs) THEN <<>>
    ELSE Ends(rs[j], s, i) \o EndsAlt(rs, j + 1, s, i)

\* greedy repetition after n rounds: one more round first, then stopping here
EndsRep(r, n, s, i) ==
    (IF r.hi >= 0 /\ n >= r.hi THEN <<>>
     ELSE With(SelectSeq(Ends(r.r, s, i), LAMBDA e : e > i), LAMBDA es :
              Concat([k \in 1..Len(es) |-> EndsRep(r, n + 1, s, es[k])])))
    \o (IF n >= r.lo THEN <<i>> ELSE <<>>)

\* the positions after the matches of r that start at position i of s, in the
\* order the backtracking matcher finds them
Ends(r, s, i) ==
    CASE r.t = "set" -> IF i <= Len(s) /\ s[i] \in r.cs THEN <<i + 1>> ELSE <<>>
      [] r.t = "lit" -> IF i + Len(r.w) - 1 <= Len(s)
                           /\ \A k \in 1..Len(r.w) : s[i + k - 1] = r.w[k]
                        THEN <<i + Len(r.w)>> ELSE <<>>
      [] r.t = "cat" -> EndsCat(r.rs, 1, s, i)
      [] r.t = "alt" -> EndsAlt(r.rs, 1, s, i)
      [] r.t = "rep" -> IF r.r.t = "set" THEN EndsRun(r, s, i) ELSE EndsRep(r, 0, s, i)
      [] r.t = "wb"  -> IF IsWordAt(s, i - 1) # IsWordAt(s, i) THEN <<i>> ELSE <<>>
      [] r.t = "bos" -> IF i = 1 THEN <<i>> ELSE <<>>

NoMatch == [from |-> 0, to |-> 0]

\* the leftmost match of r in s that starts at position p or later
searchFrom(r, s, p) ==
    With({q \in p..(Len(s) + 1) : Ends(r, s, q) # <<>>}, LAMBDA starts :
        IF starts = {} THEN NoMatch
        ELSE With(Min(starts), LAMBDA q : [from |-> q, to |-> Ends(r, s, q)[1]]))

\* re.search(r, s)
search(r, s) == searchFrom(r, s, 1)

found(m) == m.from > 0

\* match.group(0)
group0(m, s) == SubSeq(s, m.from, m.to - 1)

\* re.search of a pattern "prefix(group)": the span of the group, which is the
\* first prefix end, in backtracking order, from which the group matches
searchGroup(prefix, grp, s) ==
    With(search(Cat(<<prefix, grp>>), s), LAMBDA m :
        IF ~found(m) THEN NoMatch
        ELSE With(Ends(prefix, s, m.from), LAMBDA pe :
                 With({k \in 1..Len(pe) : Ends(grp, s, pe[k]) # <<>>}, LAMBDA ok :
                     [from |-> pe[Min(ok)], to |-> m.to])))

\* re.fullmatch(r, s)
fullmatch(r, s) ==
    With(Ends(r, s, 1), LAMBDA es : \E k \in 1..Len(es) : es[k] = Len(s) + 1)

\* re.sub(r, repl, s), for a pattern that matches no empty string
RECURSIVE subFrom(_, _, _, _)
subFrom(r, repl, s, p) ==
    With(searchFrom(r, s, p), LAMBDA m :
        IF ~found(m) THEN SubSeq(s, p, Len(s))
        ELSE SubSeq(s, p, m.from - 1) \o repl \o subFrom(r, repl, s, m.to))

sub(r, repl, s) == subFrom(r, repl, s, 1)

\* re.findall(r, s), for a pattern without groups that matches no empty string
RECURSIVE findallFrom(_, _, _)
findallFrom(r, s, p) ==
    With(searchFrom(r, s, p), LAMBDA m :
        IF ~found(m) THEN <<>>
        ELSE <<group0(m, s)>> \o findallFrom(r, s, m.to))

findall(r, s) == findallFrom(r, s, 1)

\* a word of the pattern, between \b and \b
Word(w) == Cat(<<WB, Lit(w), WB>>)

-----------------------------------------------------------------------------
(* The patterns of src/bot.py.  A pattern compiled or searched with         *)
(* re.IGNORECASE is written in lower case and applied to lower(text).       *)

START_APPLICATION_PATTERNS ==
    <<Cat(<<WB, Lit(<<"s","t","a","r","t">>), WS1, Opt(Cat(<<Lit(<<"t","h","e">>), WS1>>)), Lit(<<"a","p","p","l","i","c","a","t","i","o","n">>), WB>>),
      Cat(<<WB, Lit(<<"r","e","a","d","y">>), WS1, Lit(<<"t","o">>), WS1, Lit(<<"a","p","p","l","y">>), WB>>),
      Cat(<<WB, Lit(<<"r","e","a","d","y">>), WS1, Lit(<<"t","o">>), WS1, Lit(<<"c","o","n","t","i","n","u","e">>), WB>>),
      Cat(<<WB, Lit(<<"m","o","v","e">>), WS1, Lit(<<"f","o","r","w","a","r","d">>), WB>>),
      Cat(<<WB, Lit(<<"p","r","o","c","e","e","d">>), WS1, Lit(<<"w","i","t","h">>), WS1, Opt(Cat(<<Lit(<<"t","h","e">>), WS1>>)), Lit(<<"p","r","e">>), Opt(Ch({"-"} \cup Whitespace)), Lit(<<"a","p","p","r","o","v","a","l">>), WB>>),
      Cat(<<Alt(<<Lit(<<"t","a","l","k">>), Lit(<<"s","p","e","a","k">>)>>), WS1, Lit(<<"t","o">>), WS1, Opt(Cat(<<Lit(<<"t","h","e">>), WS1>>)), Lit(<<"l","o","a","n">>), WS1, Lit(<<"s","p","e","c","i","a","l","i","s","t">>)>>),
      Cat(<<Alt(<<Lit(<<"c","o","n","n","e","c","t">>), Lit(<<"t","r","a","n","s","f","e","r">>)>>), WS1, Opt(Cat(<<Lit(<<"m","e">>), WS1>>)), Opt(Cat(<<Lit(<<"t","o">>), WS1>>)), Opt(Cat(<<Lit(<<"t","h","e">>), WS1>>)), Lit(<<"l","o","a","n">>), WS1, Lit(<<"s","p","e","c","i","a","l","i","s","t">>)>>),
      Cat(<<Alt(<<Lit(<<"a","p","p","l","y">>), Lit(<<"a","p","p","l","i","c","a","t","i","o","n">>)>>), WS1, Lit(<<"f","o","r">>), WS1, Opt(Cat(<<Lit(<<"a">>), WS1>>)), Lit(<<"l","o","a","n">>)>>)>>

EmailLocalChars ==
    Letters \cup Digits \cup {".", "_", "%", "+", "-"}

EmailDomainChars ==
    Letters \cup Digits \cup {".", "-"}

EMAIL_REGEX ==
    Cat(<<Plus(Ch(EmailLocalChars)), Ch({"@"}), Plus(Ch(EmailDomainChars)), Ch({"."}), Rep(Ch(Letters), 2, -1)>>)

ZIP_REGEX ==
    Cat(<<WB, Rep(Ch(Digits), 5, 5), WB>>)

AFFIRMATIVE_PATTERN ==
    Cat(<<BOS, WS0, Alt(<<Lit(<<"y","e","s">>), Lit(<<"y","e","a","h">>), Lit(<<"y","e","p">>), Lit(<<"c","o","r","r","e","c","t">>), Lit(<<"t","h","a","t","'","s"," ","r","i","g","h","t">>), Lit(<<"a","f","f","i","r","m","a","t","i","v","e">>), Lit(<<"e","x","a","c","t","l","y">>), Lit(<<"s","u","r","e">>), Lit(<<"r","i","g","h","t">>)>>), WB>>)

ASSISTANT_HUMAN_ACK_PATTERN ==
    Cat(<<Alt(<<Cat(<<Lit(<<"i">>), Opt(Ch({"'", " "})), Lit(<<"l","l">>)>>), Lit(<<"i"," ","w","i","l","l">>), Lit(<<"l","e","t"," ","m","e">>)>>), WS1,
          Alt(<<Lit(<<"c","o","n","n","e","c","t">>), Lit(<<"t","r","a","n","s","f","e","r">>), Lit(<<"p","u","t">>)>>), WS1,
          Opt(Cat(<<Lit(<<"y","o","u">>), WS1>>)), Alt(<<Lit(<<"w","i","t","h">>), Lit(<<"t","o">>), Lit(<<"t","h","r","o","u","g","h">>)>>), WS1,
          Opt(Cat(<<Lit(<<"o","n","e">>), WS1, Lit(<<"o","f">>), WS1>>)), Opt(Cat(<<Lit(<<"o","u","r">>), WS1>>)), Opt(Cat(<<Lit(<<"l","i","v","e">>), WS1>>)),
          Alt(<<Lit(<<"h","u","m","a","n">>), Lit(<<"p","e","r","s","o","n">>), Lit(<<"p","e","o","p","l","e">>), Lit(<<"a","g","e","n","t">>), Lit(<<"r","e","p","r","e","s","e","n","t","a","t","i","v","e">>), Cat(<<Lit(<<"t","e","a","m">>), WS1, Lit(<<"m","e","m","b","e","r">>)>>)>>),
          Opt(Lit(<<"s">>))>>)

\* the list is searched with re.IGNORECASE
human_request_patterns ==
    <<Cat(<<Opt(Cat(<<Lit(<<"i">>), WS1>>)), Alt(<<Lit(<<"w","a","n","t">>), Lit(<<"n","e","e","d">>), Lit(<<"w","o","u","l","d"," ","l","i","k","e">>), Lit(<<"c","a","n"," ","i">>), Lit(<<"m","a","y"," ","i">>)>>), WS1, Opt(Cat(<<Lit(<<"t","o">>), WS1>>)), Alt(<<Lit(<<"s","p","e","a","k">>), Lit(<<"t","a","l","k">>)>>), WS1, Alt(<<Lit(<<"w","i","t","h">>), Lit(<<"t","o">>)>>), WS1, Opt(Cat(<<Lit(<<"a">>), WS1>>)),
            Alt(<<Lit(<<"h","u","m","a","n">>), Lit(<<"p","e","r","s","o","n">>), Lit(<<"a","g","e","n","t">>), Lit(<<"r","e","p","r","e","s","e","n","t","a","t","i","v","e">>), Cat(<<Lit(<<"r","e","a","l">>), WS1, Lit(<<"p","e","r","s","o","n">>)>>)>>)>>),
      Cat(<<Alt(<<Lit(<<"c","a","n">>), Lit(<<"m","a","y">>)>>), WS1, Opt(Cat(<<Lit(<<"y","o","u">>), WS1>>)), Alt(<<Lit(<<"c","o","n","n","e","c","t">>), Lit(<<"t","r","a","n","s","f","e","r">>), Lit(<<"p","u","t">>)>>), WS1, Opt(Cat(<<Lit(<<"m","e">>), WS1>>)), Alt(<<Lit(<<"t","h","r","o","u","g","h">>), Lit(<<"t","o">>)>>), WS1, Opt(Cat(<<Lit(<<"a">>), WS1>>)), Alt(<<Lit(<<"h","u","m","a","n">>), Lit(<<"p","e","r","s","o","n">>), Lit(<<"a","g","e","n","t">>), Lit(<<"r","e","p","r","e","s","e","n","t","a","t","i","v","e">>)>>)>>),
      Cat(<<Opt(Cat(<<Lit(<<"l","e","t">>), WS1, Lit(<<"m","e">>), WS1>>)), Alt(<<Lit(<<"s","p","e","a","k">>), Lit(<<"t","a","l","k">>)>>), WS1, Alt(<<Lit(<<"w","i","t","h">>), Lit(<<"t","o">>)>>), WS1, Opt(Cat(<<Lit(<<"a">>), WS1>>)), Alt(<<Lit(<<"h","u","m","a","n">>), Lit(<<"p","e","r","s","o","n">>), Lit(<<"a","g","e","n","t">>), Lit(<<"r","e","p","r","e","s","e","n","t","a","t","i","v","e">>)>>)>>),
      Cat(<<Opt(Cat(<<Lit(<<"i">>), WS1>>)), Alt(<<Lit(<<"w","a","n","t">>), Lit(<<"n","e","e","d">>)>>), WS1, Opt(Cat(<<Lit(<<"a">>), WS1>>)), Alt(<<Lit(<<"h","u","m","a","n">>), Lit(<<"p","e","r","s","o","n">>), Lit(<<"a","g","e","n","t">>), Lit(<<"r","e","p","r","e","s","e","n","t","a","t","i","v","e">>)>>)>>),
      Cat(<<Alt(<<Lit(<<"g","e","t">>), Lit(<<"p","u","t">>)>>), WS1, Opt(Cat(<<Lit(<<"m","e">>), WS1>>)), Opt(Cat(<<Lit(<<"a">>), WS1>>)), Alt(<<Lit(<<"h","u","m","a","n">>), Lit(<<"p","e","r","s","o","n">>), Lit(<<"a","g","e","n","t">>), Lit(<<"r","e","p","r","e","s","e","n","t","a","t","i","v","e">>)>>)>>)>>

\* [A-Z][a-zA-Z]+(?:\s+[A-Z][a-zA-Z]+){0,2} under re.IGNORECASE: the classes match either case
NameWords ==
    Cat(<<Ch(LowerLetters), Plus(Ch(LowerLetters)), Rep(Cat(<<WS1, Ch(LowerLetters), Plus(Ch(LowerLetters))>>), 0, 2)>>)

\* each pattern is a prefix followed by its one capturing group; searched with re.IGNORECASE
name_patterns ==
    <<[prefix |-> Cat(<<Opt(Cat(<<Lit(<<"m","y">>), WS1>>)), Lit(<<"f","u","l","l">>), WS1, Lit(<<"n","a","m","e">>), WS1, Lit(<<"i","s">>), WS1>>), grp |-> NameWords],
      [prefix |-> Cat(<<Alt(<<Lit(<<"m","y"," ","n","a","m","e"," ","i","s">>), Lit(<<"i","'","m">>), Lit(<<"i"," ","a","m">>), Lit(<<"t","h","i","s"," ","i","s">>), Lit(<<"i","t","'","s">>), Lit(<<"i","t"," ","i","s">>)>>), WS1>>), grp |-> NameWords],
      [prefix |-> Cat(<<>>), grp |-> Cat(<<Ch(LowerLetters), Plus(Ch(LowerLetters)), WS1, Ch(LowerLetters), Plus(Ch(LowerLetters))>>)]>>

\* (?:that's|is|zip code is|zip is)\s+(\d{5}), re.IGNORECASE
alt_zip_pattern ==
    Cat(<<Alt(<<Lit(<<"t","h","a","t","'","s">>), Lit(<<"i","s">>), Lit(<<"z","i","p"," ","c","o","d","e"," ","i","s">>), Lit(<<"z","i","p"," ","i","s">>)>>), WS1, Rep(Ch(Digits), 5, 5)>>)

\* \bsent\b.*email, re.IGNORECASE
sent_email_pattern ==
    Cat(<<WB, Lit(<<"s","e","n","t">>), WB, Star(Ch(AnyChar)), Lit(<<"e","m","a","i","l">>)>>)

zip_token_pattern ==
    Cat(<<WB, Alt(<<Plus(Ch(Digits)), Lit(<<"z","e","r","o">>), Lit(<<"o","h">>), Lit(<<"o">>), Lit(<<"o","n","e">>), Lit(<<"t","w","o">>), Lit(<<"t","h","r","e","e">>), Lit(<<"f","o","u","r">>), Lit(<<"f","i","v","e">>), Lit(<<"s","i","x">>), Lit(<<"s","e","v","e","n">>), Lit(<<"e","i","g","h","t">>), Lit(<<"n","i","n","e">>)>>), WB>>)

ZIP_WORD_MAP ==
    (<<"z","e","r","o">> :> "0")
      @@ (<<"o","h">> :> "0")
      @@ (<<"o">> :> "0")
      @@ (<<"o","n","e">> :> "1")
      @@ (<<"t","w","o">> :> "2")
      @@ (<<"t","h","r","e","e">> :> "3")
      @@ (<<"f","o","u","r">> :> "4")
      @@ (<<"f","i","v","e">> :> "5")
      @@ (<<"s","i","x">> :> "6")
      @@ (<<"s","e","v","e","n">> :> "7")
      @@ (<<"e","i","g","h","t">> :> "8")
      @@ (<<"n","i","n","e">> :> "9")

combined_replacements ==
    <<[pattern |-> Word(<<"d","o","t","c","o","m">>), repl |-> <<".","c","o","m">>],
      [pattern |-> Word(<<"d","o","t","n","e","t">>), repl |-> <<".","n","e","t">>],
      [pattern |-> Word(<<"d","o","t","o","r","g">>), repl |-> <<".","o","r","g">>],
      [pattern |-> Word(<<"d","o","t","g","o","v">>), repl |-> <<".","g","o","v">>],
      [pattern |-> Word(<<"d","o","t","c","o">>), repl |-> <<".","c","o">>]>>

word_replacements ==
    <<[pattern |-> Cat(<<WB, Alt(<<Lit(<<"a","t">>), Lit(<<"a","r","r","o","b","a">>)>>), WB>>), repl |-> <<"@">>],
      [pattern |-> Cat(<<WB, Alt(<<Lit(<<"d","o","t">>), Lit(<<"p","e","r","i","o","d">>)>>), WB>>), repl |-> <<".">>],
      [pattern |-> Cat(<<WB, Lit(<<"u","n","d","e","r","s","c","o","r","e">>), WB>>), repl |-> <<"_">>],
      [pattern |-> Cat(<<WB, Alt(<<Lit(<<"d","a","s","h">>), Lit(<<"h","y","p","h","e","n">>), Lit(<<"m","i","n","u","s">>)>>), WB>>), repl |-> <<"-">>],
      [pattern |-> Cat(<<WB, Lit(<<"p","l","u","s">>), WB>>), repl |-> <<"+">>],
      [pattern |-> Cat(<<WB, Lit(<<"a","g","i","l","i","t","y","f","e","e","t">>), WB>>), repl |-> <<"a","g","i","l","i","t","y","f","e","a","t">>],
      [pattern |-> Cat(<<WB, Lit(<<"a","g","i","l","i","t","y","f","i","t">>), WB>>), repl |-> <<"a","g","i","l","i","t","y","f","e","a","t">>]>>

LOAN_AGENT_NAME ==
    <<"B","l","a","k","e">>

loan_specialist ==
    <<"l","o","a","n"," ","s","p","e","c","i","a","l","i","s","t">>

-----------------------------------------------------------------------------
(* Extractors and validators *)

\* the substitutions of one table applied in order, each to the result of the last
RECURSIVE apply_replacements(_, _, _)
apply_replacements(table, k, text) ==
    IF k > Len(table) THEN text
    ELSE With(sub(table[k].pattern, table[k].repl, text), LAMBDA replaced :
             apply_replacements(table, k + 1, replaced))

normalize_email_text(text) ==
    With(lower(text), LAMBDA normalized :
        With(apply_replacements(combined_replacements, 1, normalized), LAMBDA combined :
            apply_replacements(word_replacements, 1, combined)))

\* None, and the empty string: the code only ever tests these values for truth
None == <<>>

extract_email_from_text(text) ==
    IF text = <<>> THEN None
    ELSE With(normalize_email_text(text), LAMBDA normalized :
             With(search(EMAIL_REGEX, normalized), LAMBDA match_normalized :
                 IF found(match_normalized) THEN group0(match_normalized, normalized)
                 ELSE With(SelectSeq(normalized, LAMBDA c : c \notin Whitespace), LAMBDA compact :
                          With(search(EMAIL_REGEX, compact), LAMBDA match_compact :
                              IF found(match_compact) THEN group0(match_compact, compact)
                              ELSE None))))

\* the loop over the tokens: token k is added unless five digits are there already
RECURSIVE zip_digits(_, _, _)
zip_digits(tokens, k, digits) ==
    IF k > Len(tokens) \/ Len(digits) >= 5 THEN digits
    ELSE With(IF \A i \in 1..Len(tokens[k]) : tokens[k][i] \in Digits
              THEN digits \o tokens[k]
              ELSE IF tokens[k] \in DOMAIN ZIP_WORD_MAP
              THEN Append(digits, ZIP_WORD_MAP[tokens[k]])
              ELSE digits,
              LAMBDA more : zip_digits(tokens, k + 1, more))

\* extract_zip_from_text without the slice of line 175
extract_zip_from_text_unsliced(text) ==
    IF text = <<>> THEN None
    ELSE With(search(ZIP_REGEX, text), LAMBDA direct_match :
             IF found(direct_match) THEN group0(direct_match, text)
             ELSE With(findall(zip_token_pattern, lower(text)), LAMBDA tokens :
                      IF tokens = <<>> THEN None
                      ELSE With(zip_digits(tokens, 1, <<>>), LAMBDA digits :
                               IF Len(digits) >= 5 THEN digits
                               ELSE None)))

extract_zip_from_text(text) ==
    IF text = <<>> THEN None
    ELSE With(search(ZIP_REGEX, text), LAMBDA direct_match :
             IF found(direct_match) THEN group0(direct_match, text)
             ELSE With(findall(zip_token_pattern, lower(text)), LAMBDA tokens :
                      IF tokens = <<>> THEN None
                      ELSE With(zip_digits(tokens, 1, <<>>), LAMBDA digits :
                               IF Len(digits) >= 5 THEN SubSeq(digits, 1, 5)
                               ELSE None)))

MaxEmailLength == 254

MaxLocalLength == 64

\* is_valid_email_address without the limit on the local part
is_valid_email_address_any_local(value) ==
    IF value = <<>> \/ Len(value) > MaxEmailLength THEN FALSE
    ELSE IF ~fullmatch(EMAIL_REGEX, value) THEN FALSE
    ELSE With(Min({i \in 1..Len(value) : value[i] = "@"}), LAMBDA at :
             LET local == SubSeq(value, 1, at - 1)
                 domain == SubSeq(value, at + 1, Len(value))
             IN IF local = <<>> \/ domain = <<>> THEN FALSE
                ELSE IF "." \notin {domain[i] : i \in 1..Len(domain)} THEN FALSE
                ELSE TRUE)

is_valid_email_address(value) ==
    IF value = <<>> \/ Len(value) > MaxEmailLength THEN FALSE
    ELSE IF ~fullmatch(EMAIL_REGEX, value) THEN FALSE
    ELSE With(Min({i \in 1..Len(value) : value[i] = "@"}), LAMBDA at :
             LET local == SubSeq(value, 1, at - 1)
                 domain == SubSeq(value, at + 1, Len(value))
             IN IF local = <<>> \/ domain = <<>> THEN FALSE
                ELSE IF Len(local) > MaxLocalLength
                        \/ "." \notin {domain[i] : i \in 1..Len(domain)} THEN FALSE
                ELSE TRUE)

\* lines 475-489: the first pattern of name_patterns that matches the latest
\* user text gives group(1).strip()
RECURSIVE extract_name(_, _)
extract_name(k, text) ==
    IF k > Len(name_patterns) THEN None
    ELSE With(searchGroup(name_patterns[k].prefix, name_patterns[k].grp, lower(text)),
              LAMBDA name_match :
                  IF found(name_match) THEN strip(group0(name_match, text))
                  ELSE extract_name(k + 1, text))

\* lines 538-544: group(1) of the fallback pattern, its last five characters
extract_alt_zip(text) ==
    With(search(alt_zip_pattern, lower(text)), LAMBDA m :
        IF found(m) THEN SubSeq(text, m.to - 5, m.to - 1) ELSE None)

\* the %XX escapes of the characters a transcript can hold
PercentCode ==
    (" " :> <<"%","2","0">>) @@ ("," :> <<"%","2","C">>) @@ ("'" :> <<"%","2","7">>)
      @@ ("@" :> <<"%","4","0">>) @@ ("+" :> <<"%","2","B">>) @@ ("%" :> <<"%","2","5">>)
      @@ ("?" :> <<"%","3","F">>) @@ ("!" :> <<"%","2","1">>) @@ (":" :> <<"%","3","A">>)
      @@ ("=" :> <<"%","3","D">>) @@ ("&" :> <<"%","2","6">>)

\* urllib.parse.quote(text): letters, digits and "_.-~/" stay, the rest is escaped
quote(text) ==
    Concat([i \in 1..Len(text) |->
               IF text[i] \in Letters \cup Digits \cup {"_", ".", "-", "~", "/"}
               THEN <<text[i]>> ELSE PercentCode[text[i]]])

-----------------------------------------------------------------------------
(* Searching the joined transcript.  The poller searches " ".join(messages);  *)
(* the model finds the same match from what it knows of each message: a      *)
(* match of the joined text starts in some message, where it either ends or  *)
(* runs into the separator.  Starts(r, s) are the positions of s where one   *)
(* or the other can happen, and the candidates are then matched against the  *)
(* joined text itself.  Holds for patterns without "^".                       *)

RECURSIVE Runs(_, _, _), RunsCat(_, _, _, _), RunsRep(_, _, _, _)

\* a match of r from position i can consume all of s and go on into what follows
Runs(r, s, i) ==
    CASE r.t = "set" -> i = Len(s) + 1
      [] r.t = "lit" -> /\ Len(s) - i + 1 < Len(r.w)
                        /\ \A k \in 1..(Len(s) - i + 1) : s[i + k - 1] = r.w[k]
      [] r.t = "cat" -> RunsCat(r.rs, 1, s, i)
      [] r.t = "alt" -> \E k \in 1..Len(r.rs) : Runs(r.rs[k], s, i)
      [] r.t = "rep" -> RunsRep(r, 0, s, i)
      [] r.t = "wb"  -> FALSE
      [] r.t = "bos" -> FALSE

RunsCat(rs, j, s, i) ==
    /\ j <= Len(rs)
    /\ \/ Runs(rs[j], s, i)
       \/ With(Ends(rs[j], s, i), LAMBDA es :
               \E k \in 1..Len(es) : RunsCat(rs, j + 1, s, es[k]))

RunsRep(r, n, s, i) ==
    /\ r.hi < 0 \/ n < r.hi
    /\ \/ Runs(r.r, s, i)
       \/ With(Ends(r.r, s, i), LAMBDA es :
               \E k \in 1..Len(es) : es[k] > i /\ RunsRep(r, n + 1, s, es[k]))

Starts(r, s) == {q \in 1..(Len(s) + 1) : Ends(r, s, q) # <<>> \/ Runs(r, s, q)}

-----------------------------------------------------------------------------
(* What the caller and the assistant say in the model: the turns the       *)
(* dialogue pipeline can append to the log.                                *)

\* "I am ready to apply"
said_ready_to_apply ==
    <<"I"," ","a","m"," ","r","e","a","d","y"," ","t","o"," ","a","p","p","l","y">>

\* "I want to speak to a human"
said_want_human ==
    <<"I"," ","w","a","n","t"," ","t","o"," ","s","p","e","a","k"," ","t","o"," ","a"," ","h","u","m","a","n">>

\* "Hi, my full name is Jane Smith"
said_full_name ==
    <<"H","i",","," ","m","y"," ","f","u","l","l"," ","n","a","m","e"," ","i","s"," ","J","a","n","e"," ","S","m","i","t","h">>

\* "it's jane dot smith at gmail dot com"
said_email ==
    <<"i","t","'","s"," ","j","a","n","e"," ","d","o","t"," ","s","m","i","t","h"," ","a","t"," ","g","m","a","i","l"," ","d","o","t"," ","c","o","m">>

\* "three three one four one"
said_zip ==
    <<"t","h","r","e","e"," ","t","h","r","e","e"," ","o","n","e"," ","f","o","u","r"," ","o","n","e">>

\* "yes"
said_yes ==
    <<"y","e","s">>

\* "well let me think for a moment I believe that my own personal email address is john dot doe at gmail dot com"
said_long_email ==
    <<"w","e","l","l"," ","l","e","t"," ","m","e"," ","t","h","i","n","k"," ","f","o","r"," ","a"," ","m","o","m","e","n","t"," ","I"," ","b","e","l","i","e","v","e"," ","t","h","a","t"," ","m","y"," ","o","w","n"," ","p","e","r","s","o","n","a","l"," ","e","m","a","i","l"," ","a","d","d","r","e","s","s"," ","i","s"," ","j","o","h","n"," ","d","o","t"," ","d","o","e"," ","a","t"," ","g","m","a","i","l"," ","d","o","t"," ","c","o","m">>

\* "well let me think for a moment I believe that my own personal email address is john dot doe at yahoo dot com"
said_other_long_email ==
    <<"w","e","l","l"," ","l","e","t"," ","m","e"," ","t","h","i","n","k"," ","f","o","r"," ","a"," ","m","o","m","e","n","t"," ","I"," ","b","e","l","i","e","v","e"," ","t","h","a","t"," ","m","y"," ","o","w","n"," ","p","e","r","s","o","n","a","l"," ","e","m","a","i","l"," ","a","d","d","r","e","s","s"," ","i","s"," ","j","o","h","n"," ","d","o","t"," ","d","o","e"," ","a","t"," ","y","a","h","o","o"," ","d","o","t"," ","c","o","m">>

\* "Connecting you to Blake, our loan specialist, now. Please hold."
replied_handoff ==
    <<"C","o","n","n","e","c","t","i","n","g"," ","y","o","u"," ","t","o"," ","B","l","a","k","e",","," ","o","u","r"," ","l","o","a","n"," ","s","p","e","c","i","a","l","i","s","t",","," ","n","o","w","."," ","P","l","e","a","s","e"," ","h","o","l","d",".">>

\* "I'll connect you with one of our agents right away."
replied_human_ack ==
    <<"I","'","l","l"," ","c","o","n","n","e","c","t"," ","y","o","u"," ","w","i","t","h"," ","o","n","e"," ","o","f"," ","o","u","r"," ","a","g","e","n","t","s"," ","r","i","g","h","t"," ","a","w","a","y",".">>

\* "I have jane.smith@gmail.com, is that right?"
replied_email_back ==
    <<"I"," ","h","a","v","e"," ","j","a","n","e",".","s","m","i","t","h","@","g","m","a","i","l",".","c","o","m",","," ","i","s"," ","t","h","a","t"," ","r","i","g","h","t","?">>

\* "I sent the email"
replied_sent_email ==
    <<"I"," ","s","e","n","t"," ","t","h","e"," ","e","m","a","i","l">>

\* "I'll connect you with our agent Blake, the loan specialist"
replied_loan_ack ==
    <<"I","'","l","l"," ","c","o","n","n","e","c","t"," ","y","o","u"," ","w","i","t","h"," ","o","u","r"," ","a","g","e","n","t"," ","B","l","a","k","e",","," ","t","h","e"," ","l","o","a","n"," ","s","p","e","c","i","a","l","i","s","t">>

\* "zip is 10001x"
said_zip_glued ==
    <<"z","i","p"," ","i","s"," ","1","0","0","0","1","x">>

\* "your zip is 90210"
replied_zip_back ==
    <<"y","o","u","r"," ","z","i","p"," ","i","s"," ","9","0","2","1","0">>

\* The calls of the model.  In each the caller and the assistant draw their turns
\* from one repertoire: a caller who applies and answers the three questions, a
\* caller whose email address needs confirming, a caller who asks for a human
\* agent, and a caller who asks for a human agent and applies all the same.
Conversations ==
    {"intake", "email", "handoff", "forwarded"}

UserSays ==
    [intake  |-> {said_ready_to_apply, said_full_name, said_email, said_zip},
     email   |-> {said_ready_to_apply, said_yes, said_long_email, said_other_long_email},
     handoff |-> {said_ready_to_apply, said_want_human},
     forwarded |-> {said_want_human, said_ready_to_apply, said_email, said_zip}]

AssistantSays ==
    [intake  |-> {},
     email   |-> {replied_email_back, replied_sent_email},
     handoff |-> {replied_handoff, replied_human_ack, replied_loan_ack},
     forwarded |-> {}]

\* "it is 6060 12"
said_long_number ==
    <<"i","t"," ","i","s"," ","6","0","6","0"," ","1","2">>

\* "three three one"
said_short_zip ==
    <<"t","h","r","e","e"," ","t","h","r","e","e"," ","o","n","e">>

\* "My name is Ann Lee, ann.lee@gmail.com, zip 60601"
said_everything ==
    <<"M","y"," ","n","a","m","e"," ","i","s"," ","A","n","n"," ","L","e","e",","," ","a","n","n",".","l","e","e","@","g","m","a","i","l",".","c","o","m",","," ","z","i","p"," ","6","0","6","0","1">>

\* the turns on the log of a loan-persona session the poller is started in
LoanSessionUserSays ==
    UserSays["intake"] \cup {said_zip_glued, said_long_number, said_short_zip, said_everything}

LoanSessionAssistantSays == {replied_zip_back}

\* the texts an extractor can be given: a turn, or "" when there is none
Texts ==
    UNION {UserSays[c] \cup AssistantSays[c] : c \in Conversations}
        \cup LoanSessionUserSays \cup LoanSessionAssistantSays \cup {<<>>}

-----------------------------------------------------------------------------
(* What the extractors give for each text of the model.  The poller applies *)
(* them to the latest user and assistant turn on every tick.                *)

name_of == [t \in Texts |-> extract_name(1, t)]

email_of == [t \in Texts |-> extract_email_from_text(t)]

valid_email == [e \in {email_of[t] : t \in Texts} |-> is_valid_email_address(e)]

\* lines 534-544: the zip of the first of the four attempts that finds one
zip_of == [t \in Texts |-> extract_zip_from_text(t)]

alt_zip_of == [t \in Texts |-> extract_alt_zip(t)]

affirmative == [t \in Texts |-> found(search(AFFIRMATIVE_PATTERN, lower(t)))]

names_loan_agent == [t \in Texts |-> contains(lower(t), lower(LOAN_AGENT_NAME))]

human_request_starts ==
    [k \in 1..Len(human_request_patterns) |->
        [t \in Texts |-> Starts(human_request_patterns[k], lower(t))]]

start_application_starts ==
    [k \in 1..Len(START_APPLICATION_PATTERNS) |->
        [t \in Texts |-> Starts(START_APPLICATION_PATTERNS[k], lower(t))]]

assistant_ack_starts == [t \in Texts |-> Starts(ASSISTANT_HUMAN_ACK_PATTERN, lower(t))]

sent_email_starts == [t \in Texts |-> Starts(sent_email_pattern, lower(t))]

\* re.search(r, " ".join(parts), re.IGNORECASE): the leftmost match, as the
\* part it starts in, its position there and its text
searchJoined(r, starts, parts) ==
    LET ends(c) == With(lower(join(SubSeq(parts, c[1], Len(parts)))), LAMBDA rest :
                       With(Ends(r, rest, c[2]), LAMBDA es :
                           IF es = <<>> THEN <<>> ELSE <<SubSeq(rest, c[2], es[1] - 1)>>))
    IN With({c \in UNION {{<<i, q>> : q \in starts[parts[i]]} : i \in 1..Len(parts)} :
                ends(c) # <<>>}, LAMBDA hits :
           IF hits = {} THEN [part |-> 0, text |-> <<>>]
           ELSE With(CHOOSE a \in hits : \A b \in hits :
                         a[1] < b[1] \/ (a[1] = b[1] /\ a[2] <= b[2]), LAMBDA c :
                    [part |-> c[1], text |-> ends(c)[1]]))

-----------------------------------------------------------------------------
(* The call session: the state of main() and of the tasks it starts *)

VARIABLES
    conversation,                \* which call of Conversations this is
    messages,                    \* the shared conversation log
    current_agent,               \* "welcome" or "loan"
    collected_data,              \* name, email, zip_code
    email_sent_flag,
    loan_flow_stage,
    nudged_stages,
    pending_email_candidate,
    loan_intro_noted,
    last_invalid_email_attempt,
    call_forwarded_flag,
    tts_voice,
    call_sid,                    \* the call id main() was given, or None
    support_phone_number,        \* SUPPORT_PHONE_NUMBER, or None
    api_key,                     \* MAILERSEND_API_KEY is set
    monitor_task,                \* where the poller task stands
    client,                      \* where the transport's client stands
    mail_calls,                  \* the calls of email_service.send_application_link
    mail_results,                \* what those calls returned
    forward_calls,               \* the calls of forward_call_to_agent
    reminders,                   \* the reminders nudge_stage has issued
    frames,                      \* the frames queued to the pipeline task
    error_logged,                \* the poller has caught and logged an exception
    mail_posts,                  \* the provider's answers to the requests of _send_email
    poller_tasks,                \* the tasks made of monitor_messages, in the order made
    application                  \* the loan application the web service is deciding

session == <<current_agent, collected_data, email_sent_flag, loan_flow_stage, nudged_stages,
             pending_email_candidate, loan_intro_noted, last_invalid_email_attempt,
             call_forwarded_flag, tts_voice>>

config == <<conversation, call_sid, support_phone_number, api_key>>

effects == <<mail_calls, mail_results, forward_calls, reminders, frames, error_logged, mail_posts, poller_tasks, application>>

vars == <<messages, session, config, monitor_task, client, effects>>

\* the most conversation turns the log holds at a time
MaxTurns == 3

\* the most turns the pipeline appends while a handler waits for queue_frames
MaxRacingTurns == 1

WELCOME_VOICE == "nova"

LOAN_VOICE == "alloy"

\* the prompts are never read by the poller: each stands for its text
welcome_system_prompt == <<"(welcome_system_prompt)">>

loan_system_prompt == <<"(loan_system_prompt)">>

kickoff_prompt == <<"(kickoff_prompt)">>

opening_message == <<"(opening_message)">>

intro_note == <<"(Note: You have already introduced yourself ...)">>

NUDGE_MESSAGES ==
    [awaiting_name |-> <<"(Reminder: Confirm the caller's full legal name ...)">>,
     awaiting_email |-> <<"(Reminder: Confirm the caller's email address ...)">>,
     awaiting_zip |-> <<"(Reminder: Ask the caller for their current zip code ...)">>,
     ready_to_send |-> <<"(All details collected ...)">>]

\* BASE_URL, by default
base_url == <<"h","t","t","p",":","/","/","l","o","c","a","l","h","o","s","t",":","8","0","0","0">>

System(text) == [role |-> "system", content |-> text]

EmptyData == [name |-> None, email |-> None, zip_code |-> None]

Init ==
    /\ messages = <<System(welcome_system_prompt)>>
    /\ current_agent = "welcome"
    /\ collected_data = EmptyData
    /\ email_sent_flag = FALSE
    /\ loan_flow_stage = "null"
    /\ nudged_stages = {}
    /\ pending_email_candidate = None
    /\ loan_intro_noted = FALSE
    /\ last_invalid_email_attempt = None
    /\ call_forwarded_flag = FALSE
    /\ tts_voice = WELCOME_VOICE
    /\ conversation \in Conversations
    /\ call_sid \in {None, <<"C","A","1">>}
    /\ support_phone_number \in {None, <<"+","1","5","5","5">>}
    /\ api_key = TRUE
    /\ conversation # "handoff" => call_sid # None /\ support_phone_number # None
    /\ monitor_task = "none"
    /\ client = "waiting"
    /\ mail_calls = <<>>
    /\ mail_results = <<>>
    /\ forward_calls = <<>>
    /\ reminders = <<>>
    /\ frames = <<>>
    /\ error_logged = FALSE
    /\ mail_posts = <<>>
    /\ poller_tasks = <<>>
    /\ application = [step |-> "none"]

-----------------------------------------------------------------------------
(* The dialogue pipeline: speech-to-text and the language model append the  *)
(* caller's and the assistant's turns to the log while the client is there. *)

Turns(log) == SelectSeq(log, LAMBDA m : m.role # "system")

\* the turns appended since the last system message
TurnsSinceDirective(log) ==
    LET directives == {i \in 1..Len(log) : log[i].role = "system"}
    IN Len(log) - (CHOOSE i \in directives \cup {0} : \A j \in directives : i >= j)

\* a handler has put a directive on the log and waits for queue_frames to return
DirectiveInFlight == client = "connecting" \/ monitor_task = "switching"

PipelineAppends(role, said) ==
    /\ client \in {"connecting", "connected"}
    /\ Len(Turns(messages)) < MaxTurns
    /\ DirectiveInFlight => TurnsSinceDirective(messages) < MaxRacingTurns
    /\ \E text \in said : messages' = Append(messages, [role |-> role, content |-> text])
    /\ UNCHANGED <<session, config, monitor_task, client, effects>>

UserTurn == PipelineAppends("user", UserSays[conversation])

AssistantTurn == PipelineAppends("assistant", AssistantSays[conversation])

-----------------------------------------------------------------------------
(* on_client_connected and on_client_disconnected *)

LLMMessagesFrame(log) == [frame |-> "LLMMessagesFrame", messages |-> log]

EndFrame == [frame |-> "EndFrame"]

\* on_client_connected raised again for a client that is already there
OnClientConnected_again ==
    /\ client \in {"waiting", "connected"}
    /\ monitor_task' = "sleeping"
    /\ messages' = Append(messages, System(opening_message))
    /\ frames' = Append(frames, LLMMessagesFrame(messages'))
    /\ client' = "connecting"
    /\ poller_tasks' = Append(poller_tasks, "running")
    /\ UNCHANGED <<session, config, mail_calls, mail_results, forward_calls, reminders,
                   error_logged, mail_posts, application>>

\* lines 569-585: the poller is started, the greeting is put on the log and
\* queued.  The transport raises the event once, when its input starts on the
\* one websocket main() was given.
OnClientConnected ==
    /\ client = "waiting"
    /\ monitor_task' = "sleeping"
    /\ messages' = Append(messages, System(opening_message))
    /\ frames' = Append(frames, LLMMessagesFrame(messages'))
    /\ client' = "connecting"
    /\ poller_tasks' = Append(poller_tasks, "running")
    /\ UNCHANGED <<session, config, mail_calls, mail_results, forward_calls, reminders,
                   error_logged, mail_posts, application>>

\* lines 586-587, once queue_frames has returned
OnClientConnectedResumes ==
    /\ client = "connecting"
    /\ messages' = SubSeq(messages, 1, Len(messages) - 1)
    /\ client' = "connected"
    /\ UNCHANGED <<session, config, monitor_task, effects>>

\* on_client_disconnected without lines 592-597: the poller is left running
OnClientDisconnected_not_cancelling ==
    /\ client \in {"waiting", "connected"}
    /\ frames' = Append(frames, EndFrame)
    /\ client' = "disconnected"
    /\ UNCHANGED <<messages, session, config, monitor_task, mail_calls, mail_results,
                   forward_calls, reminders, error_logged, mail_posts, poller_tasks, application>>

\* lines 590-598: the poller is cancelled where it waits, then EndFrame is queued
OnClientDisconnected ==
    /\ client \in {"waiting", "connected"}
    /\ monitor_task' = IF monitor_task = "none" THEN "none" ELSE "cancelled"
    /\ frames' = Append(frames, EndFrame)
    /\ client' = "disconnected"
    /\ poller_tasks' = IF monitor_task = "none" THEN poller_tasks
                       ELSE [poller_tasks EXCEPT ![Len(poller_tasks)] = "cancelled"]
    /\ UNCHANGED <<messages, session, config, mail_calls, mail_results, forward_calls, reminders,
                   error_logged, mail_posts, application>>

-----------------------------------------------------------------------------
(* The transcript poller: monitor_messages and the closures it calls *)

Contents(log, role) ==
    With(SelectSeq(log, LAMBDA m : m.role = role), LAMBDA of :
        Tuple([i \in 1..Len(of) |-> of[i].content]))

Latest(texts) == IF texts = <<>> THEN <<>> ELSE texts[Len(texts)]

\* the request looked for in the latest user turn only
user_requested_human_latest(user_messages) ==
    \E k \in 1..Len(human_request_patterns) :
        searchJoined(human_request_patterns[k], human_request_starts[k],
                     <<Latest(user_messages)>>).part > 0

\* lines 426-439
user_requested_human(user_messages) ==
    \E k \in 1..Len(human_request_patterns) :
        searchJoined(human_request_patterns[k], human_request_starts[k], user_messages).part > 0

\* lines 442-446: the acknowledgment, unless its text names the loan persona
assistant_acknowledged(assistant_messages) ==
    LET ack == searchJoined(ASSISTANT_HUMAN_ACK_PATTERN, assistant_ack_starts, assistant_messages)
    IN /\ ack.part > 0
       /\ ~(contains(ack.text, loan_specialist) \/ contains(ack.text, lower(LOAN_AGENT_NAME)))

\* the start of the application read into any user turn
start_requested_any_turn(user_messages) ==
    user_messages # <<>>

\* lines 457-460
start_requested(user_messages) ==
    \E k \in 1..Len(START_APPLICATION_PATTERNS) :
        searchJoined(START_APPLICATION_PATTERNS[k], start_application_starts[k], user_messages).part > 0

\* line 528
assistant_claims_sent(assistant_messages) ==
    searchJoined(sent_email_pattern, sent_email_starts, assistant_messages).part > 0

\* lines 184-206: the telephony client is asked to redirect the call; returned
\* is True when it did and False when it raised (lines 204-206)
forward_call_to_agent(sid, number) ==
    IF sid = None \/ number = None
    THEN UNCHANGED forward_calls
    ELSE \E returned \in BOOLEAN :
             forward_calls' = Append(forward_calls, [call_sid |-> sid, to |-> number,
                                                     returned |-> returned])

\* nudge_stage without the test of line 332
nudge_stage_every_time(stage) ==
    IF stage \notin DOMAIN NUDGE_MESSAGES
    THEN UNCHANGED <<nudged_stages, reminders>>
    ELSE /\ nudged_stages' = nudged_stages \cup {stage}
         /\ reminders' = Append(reminders, [stage |-> stage, reminder |-> NUDGE_MESSAGES[stage]])

\* lines 330-338
nudge_stage(stage) ==
    IF stage \in nudged_stages \/ stage \notin DOMAIN NUDGE_MESSAGES
    THEN UNCHANGED <<nudged_stages, reminders>>
    ELSE /\ nudged_stages' = nudged_stages \cup {stage}
         /\ reminders' = Append(reminders, [stage |-> stage, reminder |-> NUDGE_MESSAGES[stage]])

\* line 286
application_link(data) ==
    base_url \o <<"/","l","o","a","n","-","a","p","p","l","i","c","a","t","i","o","n","?">>
        \o <<"l","e","g","a","l","_","n","a","m","e","=">> \o quote(data.name)
        \o <<"&","e","m","a","i","l","=">> \o quote(data.email)
        \o <<"&","z","i","p","_","c","o","d","e","=">> \o quote(data.zip_code)

\* check_and_send_email without the test of line 284
check_and_send_email_incomplete(data) ==
    IF ~email_sent_flag
    THEN /\ mail_calls' = Append(mail_calls, [email |-> data.email, name |-> data.name,
                                              link |-> application_link(data)])
         /\ monitor_task' = "sending"
    ELSE UNCHANGED <<mail_calls, monitor_task>>

\* lines 279-291: check_and_send_email up to the call of send_application_link,
\* where the poller waits for the delivery; data is collected_data as the tick
\* has left it
check_and_send_email(data) ==
    IF ~email_sent_flag /\ data.name # None /\ data.email # None /\ data.zip_code # None
    THEN /\ mail_calls' = Append(mail_calls, [email |-> data.email, name |-> data.name,
                                              link |-> application_link(data)])
         /\ monitor_task' = "sending"
    ELSE UNCHANGED <<mail_calls, monitor_task>>

\* switch_to_loan_agent resetting the forwarding latch with the rest of the session
switch_to_loan_agent_resetting_forward ==
    IF current_agent = "loan"
    THEN UNCHANGED <<messages, session, monitor_task, effects>>
    ELSE /\ current_agent' = "loan"
         /\ collected_data' = EmptyData
         /\ email_sent_flag' = FALSE
         /\ call_forwarded_flag' = FALSE
         /\ loan_flow_stage' = "awaiting_name"
         /\ last_invalid_email_attempt' = None
         /\ pending_email_candidate' = None
         /\ loan_intro_noted' = FALSE
         /\ tts_voice' = LOAN_VOICE
         /\ messages' = <<System(loan_system_prompt), System(kickoff_prompt)>>
         /\ frames' = Append(frames, LLMMessagesFrame(messages'))
         /\ monitor_task' = "switching"
         /\ UNCHANGED <<nudged_stages, mail_calls, mail_results, forward_calls, reminders, error_logged, mail_posts, poller_tasks, application>>

\* switch_to_loan_agent without line 366
switch_to_loan_agent_keeping_persona ==
    IF current_agent = "loan"
    THEN UNCHANGED <<messages, session, monitor_task, effects>>
    ELSE /\ current_agent' = current_agent
         /\ collected_data' = EmptyData
         /\ email_sent_flag' = FALSE
         /\ loan_flow_stage' = "awaiting_name"
         /\ last_invalid_email_attempt' = None
         /\ pending_email_candidate' = None
         /\ loan_intro_noted' = FALSE
         /\ tts_voice' = LOAN_VOICE
         /\ messages' = <<System(loan_system_prompt), System(kickoff_prompt)>>
         /\ frames' = Append(frames, LLMMessagesFrame(messages'))
         /\ monitor_task' = "switching"
         /\ UNCHANGED <<nudged_stages, call_forwarded_flag, mail_calls, mail_results,
                        forward_calls, reminders, error_logged, mail_posts, poller_tasks, application>>

\* switch_to_loan_agent adding the loan prompt to the log it finds (line 375 as an append)
switch_to_loan_agent_appending_prompt ==
    IF current_agent = "loan"
    THEN UNCHANGED <<messages, session, monitor_task, effects>>
    ELSE /\ current_agent' = "loan"
         /\ collected_data' = EmptyData
         /\ email_sent_flag' = FALSE
         /\ loan_flow_stage' = "awaiting_name"
         /\ last_invalid_email_attempt' = None
         /\ pending_email_candidate' = None
         /\ loan_intro_noted' = FALSE
         /\ tts_voice' = LOAN_VOICE
         /\ messages' = messages \o <<System(loan_system_prompt), System(kickoff_prompt)>>
         /\ frames' = Append(frames, LLMMessagesFrame(messages'))
         /\ monitor_task' = "switching"
         /\ UNCHANGED <<nudged_stages, call_forwarded_flag, mail_calls, mail_results,
                        forward_calls, reminders, error_logged, mail_posts, poller_tasks, application>>

\* lines 362-390: switch_to_loan_agent up to the call of queue_frames
switch_to_loan_agent ==
    IF current_agent = "loan"
    THEN UNCHANGED <<messages, session, monitor_task, effects>>
    ELSE /\ current_agent' = "loan"
         /\ collected_data' = EmptyData
         /\ email_sent_flag' = FALSE
         /\ loan_flow_stage' = "awaiting_name"
         /\ last_invalid_email_attempt' = None
         /\ pending_email_candidate' = None
         /\ loan_intro_noted' = FALSE
         /\ tts_voice' = LOAN_VOICE
         /\ messages' = <<System(loan_system_prompt), System(kickoff_prompt)>>
         /\ frames' = Append(frames, LLMMessagesFrame(messages'))
         /\ monitor_task' = "switching"
         /\ UNCHANGED <<nudged_stages, call_forwarded_flag, mail_calls, mail_results,
                        forward_calls, reminders, error_logged, mail_posts, poller_tasks, application>>

\* the rest of switch_to_loan_agent without the call of line 393
SwitchResumes_not_nudging ==
    /\ monitor_task = "switching"
    /\ messages' = (LET popped == SubSeq(messages, 1, Len(messages) - 1)
                    IN IF loan_intro_noted THEN popped ELSE Append(popped, System(intro_note)))
    /\ loan_intro_noted' = TRUE
    /\ monitor_task' = "sleeping"
    /\ UNCHANGED <<current_agent, collected_data, email_sent_flag, loan_flow_stage,
                   pending_email_candidate, last_invalid_email_attempt, call_forwarded_flag,
                   nudged_stages, reminders,
                   tts_voice, config, client, mail_calls, mail_results, forward_calls, frames, error_logged, mail_posts, poller_tasks, application>>

\* lines 391-402: the rest of switch_to_loan_agent, once queue_frames has returned
SwitchResumes ==
    /\ monitor_task = "switching"
    /\ messages' = (LET popped == SubSeq(messages, 1, Len(messages) - 1)
                    IN IF loan_intro_noted THEN popped ELSE Append(popped, System(intro_note)))
    /\ nudge_stage("awaiting_name")
    /\ loan_intro_noted' = TRUE
    /\ monitor_task' = "sleeping"
    /\ UNCHANGED <<current_agent, collected_data, email_sent_flag, loan_flow_stage,
                   pending_email_candidate, last_invalid_email_attempt, call_forwarded_flag,
                   tts_voice, config, client, mail_calls, mail_results, forward_calls, frames, error_logged, mail_posts, poller_tasks, application>>

\* send_application_link reporting success for whatever the provider answers
send_application_link_returns_answered(status) == api_key /\ status # 0

\* email_service.py lines 56-58 and 432-449: what send_application_link returns
\* when the provider answers with status, or with none when the request fails
send_application_link_returns(status) == api_key /\ status = 202

ProviderAnswers == {202, 422, 0}

\* email_service.py lines 58-60 and 432-439: the request is made only with an api key
posted(status) == IF api_key THEN Append(mail_posts, status) ELSE mail_posts

\* the return of the delivery call with lines 293-294 left out
SendReturns_unlatched ==
    /\ monitor_task = "sending"
    /\ \E status \in ProviderAnswers :
          /\ mail_results' = Append(mail_results, send_application_link_returns(status))
          /\ mail_posts' = posted(status)
    /\ monitor_task' = "sleeping"
    /\ UNCHANGED <<messages, session, config, client, mail_calls, forward_calls,
                   reminders, frames, error_logged, poller_tasks, application>>

\* the return of the delivery call with lines 293-294 applied to a success only
SendReturns_retrying ==
    /\ monitor_task = "sending"
    /\ \E status \in ProviderAnswers :
          /\ mail_results' = Append(mail_results, send_application_link_returns(status))
          /\ mail_posts' = posted(status)
          /\ email_sent_flag' = send_application_link_returns(status)
          /\ loan_flow_stage' = IF send_application_link_returns(status)
                                THEN "completed" ELSE loan_flow_stage
    /\ monitor_task' = "sleeping"
    /\ UNCHANGED <<messages, current_agent, collected_data, nudged_stages,
                   pending_email_candidate, loan_intro_noted, last_invalid_email_attempt,
                   call_forwarded_flag, tts_voice, config, client, mail_calls, forward_calls,
                   reminders, frames, error_logged, poller_tasks, application>>

\* the return of the delivery call that also forgets the details it has sent
SendReturns_clearing ==
    /\ monitor_task = "sending"
    /\ \E status \in ProviderAnswers :
          /\ mail_results' = Append(mail_results, send_application_link_returns(status))
          /\ mail_posts' = posted(status)
    /\ email_sent_flag' = TRUE
    /\ loan_flow_stage' = "completed"
    /\ collected_data' = EmptyData
    /\ monitor_task' = "sleeping"
    /\ UNCHANGED <<messages, current_agent, nudged_stages,
                   pending_email_candidate, loan_intro_noted, last_invalid_email_attempt,
                   call_forwarded_flag, tts_voice, config, client, mail_calls, forward_calls,
                   reminders, frames, error_logged, poller_tasks, application>>

\* the return of the delivery call with line 293 and without line 294
SendReturns_flag_only ==
    /\ monitor_task = "sending"
    /\ \E status \in ProviderAnswers :
          /\ mail_results' = Append(mail_results, send_application_link_returns(status))
          /\ mail_posts' = posted(status)
    /\ email_sent_flag' = TRUE
    /\ monitor_task' = "sleeping"
    /\ UNCHANGED <<messages, current_agent, collected_data, loan_flow_stage, nudged_stages,
                   pending_email_candidate, loan_intro_noted, last_invalid_email_attempt,
                   call_forwarded_flag, tts_voice, config, client, mail_calls, forward_calls,
                   reminders, frames, error_logged, poller_tasks, application>>

\* lines 292-294: the delivery call returns and check_and_send_email completes
SendReturns ==
    /\ monitor_task = "sending"
    /\ \E status \in ProviderAnswers :
          /\ mail_results' = Append(mail_results, send_application_link_returns(status))
          /\ mail_posts' = posted(status)
    /\ email_sent_flag' = TRUE
    /\ loan_flow_stage' = "completed"
    /\ monitor_task' = "sleeping"
    /\ UNCHANGED <<messages, current_agent, collected_data, nudged_stages,
                   pending_email_candidate, loan_intro_noted, last_invalid_email_attempt,
                   call_forwarded_flag, tts_voice, config, client, mail_calls, forward_calls,
                   reminders, frames, error_logged, poller_tasks, application>>


\* the step of awaiting_name without the assignment of line 491
awaiting_name_step_keeping_stage(latest_user_text) ==
    LET name == name_of[latest_user_text]
    IN IF name # None
       THEN /\ collected_data' = [collected_data EXCEPT !.name = name]
            /\ UNCHANGED <<loan_flow_stage, nudged_stages, reminders>>
       ELSE /\ nudge_stage("awaiting_name")
            /\ UNCHANGED <<collected_data, loan_flow_stage>>

\* the step of awaiting_name taking the email of the same turn along with the name
awaiting_name_step_taking_email(latest_user_text) ==
    LET name == name_of[latest_user_text]
        email == email_of[latest_user_text]
    IN IF name # None
       THEN /\ collected_data' = [collected_data EXCEPT !.name = name, !.email = email]
            /\ loan_flow_stage' = IF email # None THEN "awaiting_zip" ELSE "awaiting_email"
            /\ UNCHANGED <<nudged_stages, reminders>>
       ELSE /\ nudge_stage("awaiting_name")
            /\ UNCHANGED <<collected_data, loan_flow_stage>>

\* lines 474-494
awaiting_name_step(latest_user_text) ==
    LET name == name_of[latest_user_text]
    IN IF name # None
       THEN /\ collected_data' = [collected_data EXCEPT !.name = name]
            /\ loan_flow_stage' = "awaiting_email"
            /\ UNCHANGED <<nudged_stages, reminders>>
       ELSE /\ nudge_stage("awaiting_name")
            /\ UNCHANGED <<collected_data, loan_flow_stage>>

\* lines 496-531
awaiting_email_step(latest_user_text, latest_assistant_text, assistant_messages) ==
    LET email_candidate_user == email_of[latest_user_text]
        assistant_email_candidate == email_of[latest_assistant_text]
        pending == IF assistant_email_candidate # None /\ valid_email[assistant_email_candidate]
                   THEN assistant_email_candidate
                   ELSE pending_email_candidate
    IN IF email_candidate_user # None /\ valid_email[email_candidate_user]
       THEN /\ collected_data' = [collected_data EXCEPT !.email = email_candidate_user]
            /\ pending_email_candidate' = None
            /\ last_invalid_email_attempt' = None
            /\ loan_flow_stage' = "awaiting_zip"
            /\ UNCHANGED <<nudged_stages, reminders>>
       ELSE IF email_candidate_user # None /\ last_invalid_email_attempt # email_candidate_user
       THEN /\ last_invalid_email_attempt' = email_candidate_user
            /\ nudge_stage("awaiting_email")
            /\ UNCHANGED <<collected_data, pending_email_candidate, loan_flow_stage>>
       ELSE IF pending # None /\ affirmative[latest_user_text] /\ email_of[latest_user_text] = None
       THEN /\ collected_data' = [collected_data EXCEPT !.email = pending]
            /\ pending_email_candidate' = None
            /\ last_invalid_email_attempt' = None
            /\ loan_flow_stage' = "awaiting_zip"
            /\ UNCHANGED <<nudged_stages, reminders>>
       ELSE /\ pending_email_candidate' = pending
            /\ IF assistant_claims_sent(assistant_messages)
               THEN nudge_stage("awaiting_email")
               ELSE UNCHANGED <<nudged_stages, reminders>>
            /\ UNCHANGED <<collected_data, last_invalid_email_attempt, loan_flow_stage>>

\* the four attempts with the assistant's turn tried before the caller's
find_zip_assistant_first(latest_user_text, latest_assistant_text) ==
    IF zip_of[latest_assistant_text] # None THEN zip_of[latest_assistant_text]
    ELSE IF zip_of[latest_user_text] # None THEN zip_of[latest_user_text]
    ELSE IF alt_zip_of[latest_assistant_text] # None THEN alt_zip_of[latest_assistant_text]
    ELSE alt_zip_of[latest_user_text]

\* lines 534-544: the first of the four attempts that gives a value
find_zip(latest_user_text, latest_assistant_text) ==
    IF zip_of[latest_user_text] # None THEN zip_of[latest_user_text]
    ELSE IF zip_of[latest_assistant_text] # None THEN zip_of[latest_assistant_text]
    ELSE IF alt_zip_of[latest_user_text] # None THEN alt_zip_of[latest_user_text]
    ELSE alt_zip_of[latest_assistant_text]

\* the zip step that marks the flow completed as soon as the zip code is stored
awaiting_zip_step_completing(latest_user_text, latest_assistant_text) ==
    LET zip_value == find_zip(latest_user_text, latest_assistant_text)
    IN IF zip_value # None
       THEN /\ collected_data' = [collected_data EXCEPT !.zip_code = zip_value]
            /\ loan_flow_stage' = "completed"
            /\ check_and_send_email(collected_data')
            /\ UNCHANGED <<nudged_stages, reminders>>
       ELSE /\ nudge_stage("awaiting_zip")
            /\ UNCHANGED <<collected_data, loan_flow_stage, mail_calls, monitor_task>>

\* lines 533-552
awaiting_zip_step(latest_user_text, latest_assistant_text) ==
    LET zip_value == find_zip(latest_user_text, latest_assistant_text)
    IN IF zip_value # None
       THEN /\ collected_data' = [collected_data EXCEPT !.zip_code = zip_value]
            /\ loan_flow_stage' = "ready_to_send"
            /\ check_and_send_email(collected_data')
            /\ UNCHANGED <<nudged_stages, reminders>>
       ELSE /\ nudge_stage("awaiting_zip")
            /\ UNCHANGED <<collected_data, loan_flow_stage, mail_calls, monitor_task>>

\* the forwarding step with the latch left as it was
human_agent_step_unlatched ==
    /\ forward_call_to_agent(call_sid, support_phone_number)
    /\ UNCHANGED <<messages, current_agent, collected_data, email_sent_flag,
                   loan_flow_stage, nudged_stages, pending_email_candidate,
                   loan_intro_noted, last_invalid_email_attempt, call_forwarded_flag,
                   tts_voice, config, monitor_task, client, mail_calls, mail_results,
                   reminders, frames, error_logged, mail_posts, poller_tasks, application>>

\* the forwarding step that also hands the caller back to the welcome persona
human_agent_step_restoring_welcome ==
    /\ call_forwarded_flag' = TRUE
    /\ current_agent' = "welcome"
    /\ forward_call_to_agent(call_sid, support_phone_number)
    /\ UNCHANGED <<messages, collected_data, email_sent_flag,
                   loan_flow_stage, nudged_stages, pending_email_candidate,
                   loan_intro_noted, last_invalid_email_attempt, tts_voice, config,
                   monitor_task, client, mail_calls, mail_results, reminders, frames, error_logged, mail_posts, poller_tasks, application>>

\* the forwarding step without the continue of line 454: the pass goes on to
\* the persona logic of line 456
human_agent_step_falling_through ==
    /\ call_forwarded_flag' = TRUE
    /\ forward_call_to_agent(call_sid, support_phone_number)
    /\ IF current_agent = "welcome" /\ start_requested(Contents(messages, "user"))
       THEN /\ current_agent' = "loan"
            /\ collected_data' = EmptyData
            /\ email_sent_flag' = FALSE
            /\ loan_flow_stage' = "awaiting_name"
            /\ last_invalid_email_attempt' = None
            /\ pending_email_candidate' = None
            /\ loan_intro_noted' = FALSE
            /\ tts_voice' = LOAN_VOICE
            /\ messages' = <<System(loan_system_prompt), System(kickoff_prompt)>>
            /\ frames' = Append(frames, LLMMessagesFrame(messages'))
            /\ monitor_task' = "switching"
            /\ UNCHANGED <<nudged_stages, config, client, mail_calls, mail_results,
                           reminders, error_logged, mail_posts, poller_tasks, application>>
       ELSE UNCHANGED <<messages, current_agent, collected_data, email_sent_flag,
                        loan_flow_stage, nudged_stages, pending_email_candidate,
                        loan_intro_noted, last_invalid_email_attempt, tts_voice, config,
                        monitor_task, client, mail_calls, mail_results, reminders, frames,
                        error_logged, mail_posts, poller_tasks, application>>

\* the forwarding step with a return for the continue of line 454: the loop ends
human_agent_step_ending_loop ==
    /\ call_forwarded_flag' = TRUE
    /\ forward_call_to_agent(call_sid, support_phone_number)
    /\ monitor_task' = "returned"
    /\ UNCHANGED <<messages, current_agent, collected_data, email_sent_flag,
                   loan_flow_stage, nudged_stages, pending_email_candidate,
                   loan_intro_noted, last_invalid_email_attempt, tts_voice, config,
                   client, mail_calls, mail_results, reminders, frames, error_logged, mail_posts, poller_tasks, application>>

\* the forwarding step that sets the latch only when the call was redirected
human_agent_step_retrying ==
    /\ forward_call_to_agent(call_sid, support_phone_number)
    /\ call_forwarded_flag' = (/\ forward_calls' # forward_calls
                               /\ forward_calls'[Len(forward_calls')].returned)
    /\ UNCHANGED <<messages, current_agent, collected_data, email_sent_flag,
                   loan_flow_stage, nudged_stages, pending_email_candidate,
                   loan_intro_noted, last_invalid_email_attempt, tts_voice, config,
                   monitor_task, client, mail_calls, mail_results, reminders, frames,
                   error_logged, mail_posts, poller_tasks, application>>

\* lines 448-454: the latch is set, then the call is forwarded
human_agent_step ==
    /\ call_forwarded_flag' = TRUE
    /\ forward_call_to_agent(call_sid, support_phone_number)
    /\ UNCHANGED <<messages, current_agent, collected_data, email_sent_flag,
                   loan_flow_stage, nudged_stages, pending_email_candidate,
                   loan_intro_noted, last_invalid_email_attempt, tts_voice, config,
                   monitor_task, client, mail_calls, mail_results, reminders, frames, error_logged, mail_posts, poller_tasks, application>>

\* line 424 without its tests of call_sid and support_phone_number
forwarding_enabled_unconfigured ==
    ~call_forwarded_flag

\* line 424
forwarding_enabled ==
    ~call_forwarded_flag /\ call_sid # None /\ support_phone_number # None

\* lines 408-561: one pass of the loop of monitor_task, from the end of its
\* sleep to the next point where it waits.  The first sleep of two seconds
\* outlasts the handover of the greeting in on_client_connected.
Tick ==
    /\ monitor_task = "sleeping"
    /\ client # "connecting"
    /\ LET aggregated_messages == messages
           user_messages == Contents(aggregated_messages, "user")
           assistant_messages == Contents(aggregated_messages, "assistant")
           latest_user_text == Latest(user_messages)
           latest_assistant_text == Latest(assistant_messages)
       IN IF aggregated_messages = <<>>
          THEN UNCHANGED vars
          ELSE IF /\ forwarding_enabled
                  /\ \/ user_requested_human(user_messages)
                     \/ assistant_acknowledged(assistant_messages)
          THEN human_agent_step
          ELSE IF current_agent = "welcome"
          THEN IF start_requested(user_messages) \/ names_loan_agent[latest_assistant_text]
               THEN switch_to_loan_agent /\ UNCHANGED <<config, client>>
               ELSE UNCHANGED vars
          ELSE IF loan_flow_stage = "awaiting_name" /\ collected_data.name = None
          THEN /\ awaiting_name_step(latest_user_text)
               /\ UNCHANGED <<messages, current_agent, email_sent_flag, pending_email_candidate,
                              loan_intro_noted, last_invalid_email_attempt, call_forwarded_flag,
                              tts_voice, config, monitor_task, client, mail_calls, mail_results,
                              forward_calls, frames, error_logged, mail_posts, poller_tasks, application>>
          ELSE IF loan_flow_stage = "awaiting_email" /\ collected_data.email = None
          THEN /\ awaiting_email_step(latest_user_text, latest_assistant_text, assistant_messages)
               /\ UNCHANGED <<messages, current_agent, email_sent_flag, loan_intro_noted,
                              call_forwarded_flag, tts_voice, config, monitor_task, client,
                              mail_calls, mail_results, forward_calls, frames, error_logged, mail_posts, poller_tasks, application>>
          ELSE IF loan_flow_stage = "awaiting_zip" /\ collected_data.zip_code = None
          THEN /\ awaiting_zip_step(latest_user_text, latest_assistant_text)
               /\ UNCHANGED <<messages, current_agent, email_sent_flag, pending_email_candidate,
                              loan_intro_noted, last_invalid_email_attempt, call_forwarded_flag,
                              tts_voice, config, client, mail_results, forward_calls, frames, error_logged, mail_posts, poller_tasks, application>>
          ELSE IF loan_flow_stage = "completed"
          THEN UNCHANGED vars
          ELSE /\ check_and_send_email(collected_data)
               /\ UNCHANGED <<messages, session, config, client, mail_results, forward_calls,
                              reminders, frames, error_logged, mail_posts, poller_tasks, application>>

\* a pass that raises in a loop without the try of line 409: the task ends
TickRaises_uncaught ==
    /\ monitor_task = "sleeping"
    /\ client # "connecting"
    /\ monitor_task' = "failed"
    /\ UNCHANGED <<messages, session, config, client, effects>>

\* lines 409-421 and 562-563: a pass of the loop raises while it reads the log,
\* before it has changed anything; the handler of the loop logs the exception
\* and starts its sleep of two seconds
TickRaises ==
    /\ monitor_task = "sleeping"
    /\ client # "connecting"
    /\ error_logged' = TRUE
    /\ monitor_task' = "backoff"
    /\ UNCHANGED <<messages, session, config, client, mail_calls, mail_results,
                   forward_calls, reminders, frames, mail_posts, poller_tasks, application>>

\* the most delivery calls of a call that raise
MaxDeliveryRaises == 1

\* the delivery call raises and the handler sets the latch and the stage all the same
SendRaises_latching ==
    /\ monitor_task = "sending"
    /\ Len(mail_calls) <= MaxDeliveryRaises
    /\ error_logged' = TRUE
    /\ email_sent_flag' = TRUE
    /\ loan_flow_stage' = "completed"
    /\ monitor_task' = "backoff"
    /\ UNCHANGED <<messages, current_agent, collected_data, nudged_stages,
                   pending_email_candidate, loan_intro_noted, last_invalid_email_attempt,
                   call_forwarded_flag, tts_voice, config, client, mail_calls, mail_results,
                   forward_calls, reminders, frames, mail_posts, poller_tasks, application>>

\* lines 287-291 and 562-563: the await of send_application_link raises an
\* Exception instead of returning; lines 292-294 are not run, the handler of the
\* loop logs the exception and starts its sleep of two seconds
SendRaises ==
    /\ monitor_task = "sending"
    /\ Len(mail_calls) <= MaxDeliveryRaises
    /\ error_logged' = TRUE
    /\ monitor_task' = "backoff"
    /\ UNCHANGED <<messages, session, config, client, mail_calls, mail_results,
                   forward_calls, reminders, frames, mail_posts, poller_tasks, application>>

\* line 564, then lines 408-410: the sleep of the handler ends and the loop
\* goes round to the sleep before its next pass
BackoffEnds ==
    /\ monitor_task = "backoff"
    /\ monitor_task' = "sleeping"
    /\ UNCHANGED <<messages, session, config, client, effects>>

-----------------------------------------------------------------------------

Next ==
    \/ OnClientConnected
    \/ OnClientConnectedResumes
    \/ UserTurn
    \/ AssistantTurn
    \/ Tick
    \/ SwitchResumes
    \/ SendReturns
    \/ OnClientDisconnected

Spec == Init /\ [][Next]_vars


-----------------------------------------------------------------------------
(* The poller in any session of the loan persona.  check_and_send_email reads  *)
(* collected_data and email_sent_flag; here the tick that calls it starts from *)
(* every value of the two, whichever stage the flow is in.                     *)

LoanSessionLogs ==
    LET start == <<System(loan_system_prompt), System(intro_note)>>
        user_turns == {<<>>} \cup {<<[role |-> "user", content |-> said]>> :
                                      said \in LoanSessionUserSays}
        assistant_turns == {<<>>} \cup {<<[role |-> "assistant", content |-> replied]>> :
                                           replied \in LoanSessionAssistantSays}
    IN {start \o u \o a : u \in user_turns, a \in assistant_turns}

InitLoanSession ==
    /\ messages \in LoanSessionLogs
    /\ current_agent = "loan"
    /\ collected_data \in [name : {None, name_of[said_full_name]},
                           email : {None, email_of[said_email]},
                           zip_code : {None, zip_of[said_zip]}]
    /\ email_sent_flag \in BOOLEAN
    /\ loan_flow_stage \in {"awaiting_name", "awaiting_email", "awaiting_zip"}
    /\ nudged_stages = {"awaiting_name"}
    /\ pending_email_candidate = None
    /\ loan_intro_noted = TRUE
    /\ last_invalid_email_attempt = None
    /\ call_forwarded_flag = FALSE
    /\ tts_voice = LOAN_VOICE
    /\ conversation = "intake"
    /\ call_sid = <<"C","A","1">>
    /\ support_phone_number = <<"+","1","5","5","5">>
    /\ api_key \in BOOLEAN
    /\ monitor_task = "sleeping"
    /\ client = "connected"
    /\ mail_calls = <<>>
    /\ mail_results = <<>>
    /\ forward_calls = <<>>
    /\ reminders = <<>>
    /\ frames = <<>>
    /\ error_logged = FALSE
    /\ mail_posts = <<>>
    /\ poller_tasks = <<"running">>
    /\ application = [step |-> "none"]

NextLoanSession == Tick \/ SendReturns

SpecLoanSession == InitLoanSession /\ [][NextLoanSession]_vars

-----------------------------------------------------------------------------
(* The call in which passes of the poller can raise: while the log is read,  *)
(* which leaves the session as it was, and in the delivery call, should the  *)
(* email service let an exception out.                                       *)

InitFaulty == Init /\ conversation \in {"intake", "email"}

NextFaulty == Next \/ TickRaises \/ SendRaises \/ BackoffEnds

SpecFaulty == InitFaulty /\ [][NextFaulty]_vars

-----------------------------------------------------------------------------
(* The web service: submit_loan_application of main.py and the reading of    *)
(* the decision it is sent.  A JSON value is a record: kind "none" for null, *)
(* "str" with its text, "list" with its items, "dict" with its entries as    *)
(* records of key and value, "other" for a number or a boolean.              *)

Node(kind, text, items) == [kind |-> kind, text |-> text, items |-> items]

\* dict.get(key)
Get(node, key) ==
    With({i \in 1..Len(node.items) : node.items[i].key = key}, LAMBDA at :
        IF at = {} THEN Node("none", <<>>, <<>>) ELSE node.items[Min(at)].value)

\* lines 125-133: the first of reason, explanation and details that is not
\* empty, as text (the payloads of the model give a reason as a string)
reason_value(node) ==
    With(<<Get(node, "reason"), Get(node, "explanation"), Get(node, "details")>>, LAMBDA given :
        With({i \in 1..3 : given[i].kind = "str" /\ given[i].text # <<>>}, LAMBDA truthy :
            IF truthy = {} THEN None ELSE given[Min(truthy)].text))

\* lines 115-150
RECURSIVE collect_decisions(_)
collect_decisions(node) ==
    LET decision_keys == <<"decision", "result", "status", "outcome", "approved">>
        nested_keys == <<"outputs", "result", "results", "data">>
    IN IF node.kind = "none" THEN <<>>
       ELSE IF node.kind = "dict"
       THEN Concat([k \in 1..Len(decision_keys) |->
                       IF Get(node, decision_keys[k]).kind = "str"
                       THEN <<[decision |-> Get(node, decision_keys[k]).text,
                               reason |-> reason_value(node)]>>
                       ELSE <<>>])
            \o Concat([k \in 1..Len(nested_keys) |->
                          IF Get(node, nested_keys[k]).kind # "none"
                          THEN collect_decisions(Get(node, nested_keys[k]))
                          ELSE <<>>])
       ELSE IF node.kind = "list"
       THEN Concat([i \in 1..Len(node.items) |-> collect_decisions(node.items[i])])
       ELSE IF node.kind = "str"
       THEN <<[decision |-> node.text, reason |-> None]>>
       ELSE <<>>

\* lines 170-174
priority_groups ==
    <<{<<"d","e","n","y">>,
       <<"d","e","c","l","i","n">>,
       <<"r","e","j","e","c","t">>},
      {<<"a","p","p","r","o","v","e">>,
       <<"y","e","s">>,
       <<"t","r","u","e">>},
      {<<"r","e","v","i","e","w">>,
       <<"m","a","n","u","a","l">>}>>

\* lines 163-168: the reasons that are not empty, each once in the order first
\* seen, joined by "; "
merge_reasons(items) ==
    With(SelectSeq(items, LAMBDA item : item.reason # None), LAMBDA with_reason :
        IF with_reason = <<>> THEN items[1].reason
        ELSE With({i \in 1..Len(with_reason) :
                      \A j \in 1..(i - 1) : with_reason[j].reason # with_reason[i].reason},
                  LAMBDA first :
                      Concat([k \in 1..Cardinality(first) |->
                                 With(CHOOSE i \in first : Cardinality({j \in first : j <= i}) = k,
                                      LAMBDA i : IF k = 1 THEN with_reason[i].reason
                                                 ELSE <<";", " ">> \o with_reason[i].reason)])))

\* lines 152-185: the first group of keywords found in some decision (lower
\* case, stripped) gives the first decision that holds one of them; with no
\* group, the first decision
choose_preferred(decisions) ==
    IF decisions = <<>> THEN [outcome |-> None, reason |-> None]
    ELSE With([g \in 1..Len(priority_groups) |->
                  SelectSeq(decisions, LAMBDA d :
                      \E keyword \in priority_groups[g] :
                          contains(lower(strip(d.decision)), keyword))] \o <<>>,
              LAMBDA matches :
                  With({g \in 1..Len(matches) : matches[g] # <<>>}, LAMBDA hit :
                      IF hit = {}
                      THEN [outcome |-> decisions[1].decision, reason |-> decisions[1].reason]
                      ELSE [outcome |-> matches[Min(hit)][1].decision,
                            reason |-> merge_reasons(matches[Min(hit)])]))

\* lines 108-188
extract_decision_outcome(payload) ==
    choose_preferred(collect_decisions(payload))

\* line 330
is_approved(decision_outcome) ==
    With(lower(decision_outcome), LAMBDA decision_outcome_normalized :
        \/ contains(decision_outcome_normalized, <<"a","p","p","r","o","v","e">>)
        \/ contains(decision_outcome_normalized, <<"y","e","s">>)
        \/ decision_outcome_normalized = <<"t","r","u","e">>)

\* the decisions and the reason a decisioning response of the model holds:
\* "Approved", "Denied", "Declined", "Manual review", "low score"
DecisionTexts ==
    [approved |-> <<"A","p","p","r","o","v","e","d">>,
     denied |-> <<"D","e","n","i","e","d">>,
     declined |-> <<"D","e","c","l","i","n","e","d">>,
     manual_review |-> <<"M","a","n","u","a","l"," ","r","e","v","i","e","w">>,
     low_score |-> <<"l","o","w"," ","s","c","o","r","e">>]

\* the most decision objects in a decisioning response
MaxDecisions == 2

\* the responses: null, or up to MaxDecisions decision objects, as a list or
\* as the list under "data".  A decision object is a decision with or without
\* its reason, a decision nested under "result", or a decision given as a
\* boolean.
Payloads ==
    LET Str(text) == Node("str", text, <<>>)
        Dict(entries) == Node("dict", <<>>, entries)
        Entry(key, value) == [key |-> key, value |-> value]
        objects ==
            {Dict(<<Entry("decision", Str(d))>>) :
                 d \in {DecisionTexts.approved, DecisionTexts.denied,
                        DecisionTexts.declined, DecisionTexts.manual_review}}
            \cup {Dict(<<Entry("decision", Str(DecisionTexts.declined)),
                         Entry("reason", Str(DecisionTexts.low_score))>>),
                  Dict(<<Entry("result", Dict(<<Entry("outcome", Str(DecisionTexts.approved))>>))>>),
                  Dict(<<Entry("approved", Node("other", <<>>, <<>>))>>)}
        RECURSIVE lists(_)
        lists(n) == IF n = 0 THEN {<<>>}
                    ELSE lists(n - 1) \cup {Append(l, o) : l \in lists(n - 1), o \in objects}
    IN {Node("none", <<>>, <<>>)}
           \cup {Node("list", <<>>, l) : l \in lists(MaxDecisions)}
           \cup {Dict(<<Entry("data", Node("list", <<>>, l))>>) : l \in lists(MaxDecisions)}

\* lines 306-317: the decisioning service answers the request
DecisionArrives ==
    /\ application.step = "submitted"
    /\ \E payload \in Payloads :
          application' = [application EXCEPT !.step = "decided", !.payload = payload]
    /\ UNCHANGED <<messages, session, config, monitor_task, client, mail_calls, mail_results,
                   forward_calls, reminders, frames, error_logged, mail_posts, poller_tasks>>

\* lines 319-323: the outcome is read; without one the request fails
ExtractDecisionOutcome ==
    /\ application.step = "decided"
    /\ LET parsed == extract_decision_outcome(application.payload)
       IN application' = [application EXCEPT
                             !.step = IF parsed.outcome = None THEN "failed" ELSE "parsed",
                             !.outcome = parsed.outcome,
                             !.reason = parsed.reason]
    /\ UNCHANGED <<messages, session, config, monitor_task, client, mail_calls, mail_results,
                   forward_calls, reminders, frames, error_logged, mail_posts, poller_tasks>>

\* lines 325-353: the applicant is told, by the approval or by the denial mail
Notify ==
    /\ application.step = "parsed"
    /\ application' = [application EXCEPT
                          !.step = "answered",
                          !.notification = IF ~api_key THEN "none"
                                           ELSE IF is_approved(application.outcome) THEN "approval"
                                           ELSE "denial"]
    /\ UNCHANGED <<messages, session, config, monitor_task, client, mail_calls, mail_results,
                   forward_calls, reminders, frames, error_logged, mail_posts, poller_tasks>>

InitDecision ==
    /\ messages = <<>>
    /\ current_agent = "welcome"
    /\ collected_data = EmptyData
    /\ email_sent_flag = FALSE
    /\ loan_flow_stage = "null"
    /\ nudged_stages = {}
    /\ pending_email_candidate = None
    /\ loan_intro_noted = FALSE
    /\ last_invalid_email_attempt = None
    /\ call_forwarded_flag = FALSE
    /\ tts_voice = WELCOME_VOICE
    /\ conversation = "intake"
    /\ call_sid = None
    /\ support_phone_number = None
    /\ api_key \in BOOLEAN
    /\ monitor_task = "none"
    /\ client = "waiting"
    /\ mail_calls = <<>>
    /\ mail_results = <<>>
    /\ forward_calls = <<>>
    /\ reminders = <<>>
    /\ frames = <<>>
    /\ error_logged = FALSE
    /\ mail_posts = <<>>
    /\ poller_tasks = <<>>
    /\ application = [step |-> "submitted", payload |-> Node("none", <<>>, <<>>),
                      outcome |-> None, reason |-> None, notification |-> "none"]

SpecDecision ==
    InitDecision /\ [][DecisionArrives \/ ExtractDecisionOutcome \/ Notify]_vars

-----------------------------------------------------------------------------
(* Properties *)

\* C1: within one call send_application_link is invoked at most once, however
\* many ticks follow the one that found name, email and zip code populated.
C1_SendInvokedAtMostOnce == Len(mail_calls) <= 1

\* the details were sent, the call returned and the poller is ticking again
C1_Witness ==
    /\ Len(mail_calls) = 1
    /\ collected_data.name # None /\ collected_data.email # None /\ collected_data.zip_code # None
    /\ email_sent_flag
    /\ monitor_task = "sleeping"
    /\ client = "connected"

\* C2: within one call forward_call_to_agent is invoked at most once, also when
\* the user text keeps matching a human-agent request on every later tick.
C2_ForwardInvokedAtMostOnce == Len(forward_calls) <= 1

\* the call was forwarded and the request is still in the transcript the poller reads
C2_Witness ==
    /\ Len(forward_calls) = 1
    /\ call_forwarded_flag
    /\ user_requested_human(Contents(messages, "user"))
    /\ monitor_task = "sleeping"
    /\ client = "connected"

\* C3: the persona switch is one-directional: once current_agent is "loan", no
\* step of the call makes it "welcome" again.
C3_PersonaNeverReturns == [][current_agent = "loan" => current_agent' = "loan"]_vars

\* the loan persona at the end of its flow, after a failed delivery
C3_Witness ==
    /\ current_agent = "loan"
    /\ loan_flow_stage = "completed"
    /\ mail_results = <<FALSE>>

\* C4: email_sent_flag and call_forwarded_flag are one-way latches: no step of a
\* call takes either from true to false, the persona switch included.
C4_LatchesNeverReset ==
    [][/\ email_sent_flag => email_sent_flag'
       /\ call_forwarded_flag => call_forwarded_flag']_vars

\* the persona switch has run with the forwarding latch set
C4_Witness ==
    /\ call_forwarded_flag
    /\ current_agent = "loan"
    /\ loan_intro_noted

\* C5: send_application_link is invoked only with name, email and zip code all
\* populated and email_sent_flag false; a tick that runs check_and_send_email
\* with a field empty or with the flag set invokes nothing, leaves the flag as
\* it is and does not complete the stage.
C5_SendOnlyWhenCompleteAndUnsent ==
    [][LET complete == /\ collected_data'.name # None
                       /\ collected_data'.email # None
                       /\ collected_data'.zip_code # None
       IN /\ mail_calls' # mail_calls =>
                /\ ~email_sent_flag
                /\ complete
                /\ mail_calls' = Append(mail_calls, [email |-> collected_data'.email,
                                                     name |-> collected_data'.name,
                                                     link |-> application_link(collected_data')])
          /\ monitor_task = "sleeping" /\ (email_sent_flag \/ ~complete) =>
                /\ mail_calls' = mail_calls
                /\ email_sent_flag' = email_sent_flag
                /\ loan_flow_stage' = "completed" => loan_flow_stage = "completed"
                /\ loan_flow_stage = "ready_to_send" => loan_flow_stage' = "ready_to_send"]_vars

\* the zip code was stored and check_and_send_email ran without a name: nothing was sent
C5_Witness ==
    /\ loan_flow_stage = "ready_to_send"
    /\ collected_data.zip_code # None
    /\ collected_data.name = None
    /\ mail_calls = <<>>
    /\ monitor_task = "sleeping"

\* C6: whatever the delivery call returns, email_sent_flag is true once it has
\* returned and there is no second call: a failed delivery is not retried.
C6_NoRetryAfterAnyOutcome ==
    mail_results # <<>> =>
        /\ email_sent_flag
        /\ loan_flow_stage = "completed"
        /\ Len(mail_results) = 1
        /\ Len(mail_calls) = 1

\* the delivery failed and the poller is ticking again with the latch set
C6_Witness ==
    /\ mail_results = <<FALSE>>
    /\ email_sent_flag
    /\ monitor_task = "sleeping"
    /\ client = "connected"

\* C7: collected_data is filled monotonically: a field that holds a value keeps
\* that value through every later step of the call.
C7_FieldsNeverChangeOnceSet ==
    [][\A field \in {"name", "email", "zip_code"} :
          collected_data[field] # None => collected_data'[field] = collected_data[field]]_vars

\* name and email are stored and the latest user turn would give another name
C7_Witness ==
    /\ collected_data.name # None
    /\ collected_data.email # None
    /\ name_of[Latest(Contents(messages, "user"))] \notin {None, collected_data.name}

\* C8: collected_data.email is empty or a valid address: at most 254
\* characters, the pattern matching all of it, a local part of 1 to 64
\* characters and a domain that holds a dot.
C8_StoredEmailIsValid ==
    LET value == collected_data.email
        at == Min({i \in 1..Len(value) : value[i] = "@"})
        domain == SubSeq(value, at + 1, Len(value))
    IN value # None =>
          /\ Len(value) <= MaxEmailLength
          /\ fullmatch(EMAIL_REGEX, value)
          /\ at - 1 >= 1 /\ at - 1 <= MaxLocalLength
          /\ \E i \in 1..Len(domain) : domain[i] = "."

\* the address the assistant read back was stored on the caller's "yes"
C8_Witness ==
    /\ collected_data.email # None
    /\ collected_data.email = email_of[replied_email_back]
    /\ affirmative[Latest(Contents(messages, "user"))]

\* C9: in stage awaiting_email every distinct invalid candidate of the latest
\* user turn gets one reminder: the tick that records a new invalid value
\* emits a reminder, and no other tick of the stage that sees an invalid
\* candidate does.
C9_OneReminderPerInvalidValue ==
    [][LET candidate == email_of[Latest(Contents(messages, "user"))]
       IN (/\ Tick
           /\ current_agent = "loan"
           /\ loan_flow_stage = "awaiting_email"
           /\ candidate # None /\ ~valid_email[candidate]
           /\ ~(~call_forwarded_flag /\ call_forwarded_flag'))
          => IF candidate # last_invalid_email_attempt
             THEN Len(reminders') = Len(reminders) + 1
             ELSE reminders' = reminders]_vars

\* C10: in the loan persona the turns "Hi, my full name is Jane Smith", "it's
\* jane dot smith at gmail dot com" and "three three one four one", each seen
\* by one tick, give name "Jane Smith" and stage awaiting_email, then email
\* "jane.smith@gmail.com" and stage awaiting_zip, then zip code "33141", stage
\* ready_to_send and one delivery call to that address with the link of the
\* three escaped values.
C10_IntakeScenario ==
    [][LET latest_user_text == Latest(Contents(messages, "user"))
           jane == [name |-> <<"J","a","n","e"," ","S","m","i","t","h">>,
                    email |-> <<"j","a","n","e",".","s","m","i","t","h","@","g","m","a","i","l",".","c","o","m">>,
                    zip_code |-> <<"3","3","1","4","1">>]
       IN Tick /\ current_agent = "loan" =>
          /\ loan_flow_stage = "awaiting_name" /\ latest_user_text = said_full_name =>
                /\ loan_flow_stage' = "awaiting_email"
                /\ collected_data'.name = jane.name
          /\ (/\ loan_flow_stage = "awaiting_email" /\ latest_user_text = said_email
              /\ collected_data.name = jane.name) =>
                /\ loan_flow_stage' = "awaiting_zip"
                /\ collected_data'.email = jane.email
          /\ (/\ loan_flow_stage = "awaiting_zip" /\ latest_user_text = said_zip
              /\ collected_data.name = jane.name /\ collected_data.email = jane.email) =>
                /\ loan_flow_stage' = "ready_to_send"
                /\ collected_data'.zip_code = jane.zip_code
                /\ mail_calls' = <<[email |-> jane.email, name |-> jane.name,
                                    link |-> application_link(jane)]>>]_vars

\* C11: with a call id and a support number configured and call_forwarded_flag
\* false, the pass of the poller that finds a human-agent request among the user
\* turns of the log calls forward_call_to_agent once, with that call id and that
\* number, and sets the flag; once the flag is set no step makes a further call.
C11_FirstRequestForwardsOnce ==
    [][LET user_messages == Contents(messages, "user")
           requested == \E i \in 1..Len(user_messages) : user_messages[i] = said_want_human
       IN /\ (/\ ~call_forwarded_flag /\ call_sid # None /\ support_phone_number # None
               /\ requested
               /\ Tick)
              => /\ call_forwarded_flag'
                 /\ forward_calls = <<>>
                 /\ Len(forward_calls') = 1
                 /\ forward_calls'[1].call_sid = call_sid
                 /\ forward_calls'[1].to = support_phone_number
          /\ call_forwarded_flag => forward_calls' = forward_calls]_vars

\* the call was forwarded once and the caller has repeated the request since
C11_Witness ==
    /\ Len(forward_calls) = 1
    /\ forward_calls[1].call_sid = call_sid /\ forward_calls[1].to = support_phone_number
    /\ call_forwarded_flag
    /\ Contents(messages, "user") = <<said_want_human, said_want_human, said_want_human>>
    /\ monitor_task = "sleeping"


\* C12: no pass of the poller, the persona switch included, removes a user or
\* assistant turn from the log: the turns of the log before the step are the
\* first turns of the log after it.
C12_PollerKeepsEveryTurn ==
    [][(Tick \/ SwitchResumes) =>
           LET before == Turns(messages)
               after == Turns(messages')
           IN /\ Len(after) >= Len(before)
              /\ SubSeq(after, 1, Len(before)) = before]_vars

\* C13: the greeting of on_client_connected and the kickoff directive of
\* switch_to_loan_agent are taken off the log by their own pop, whatever the
\* pipeline appends while the handler waits for queue_frames: when the handler
\* resumes, the directive leaves the log and every user and assistant turn stays.
C13_DirectiveRemovedByItsOwnPop ==
    [][/\ OnClientConnectedResumes =>
              /\ \A i \in 1..Len(messages') : messages'[i] # System(opening_message)
              /\ Turns(messages') = Turns(messages)
       /\ SwitchResumes =>
              /\ \A i \in 1..Len(messages') : messages'[i] # System(kickoff_prompt)
              /\ Turns(messages') = Turns(messages)]_vars

\* C14: in the welcome persona nothing is collected: whatever the turns of the
\* log contain, collected_data is all empty, there is no stage and
\* send_application_link has not been called.
C14_NothingCollectedInWelcome ==
    current_agent = "welcome" =>
        /\ collected_data = EmptyData
        /\ loan_flow_stage = "null"
        /\ mail_calls = <<>>

\* the welcome persona with the poller running and a name, an email address and
\* a zip code said by the caller
C14_Witness ==
    /\ current_agent = "welcome"
    /\ monitor_task = "sleeping"
    /\ client = "connected"
    /\ Contents(messages, "user") = <<said_full_name, said_email, said_zip>>
    /\ name_of[said_full_name] # None /\ email_of[said_email] # None /\ zip_of[said_zip] # None

\* C15: switch_to_loan_agent, run in the welcome persona, leaves the loan
\* persona, stage awaiting_name, collected_data all empty, email_sent_flag
\* false, no pending and no last invalid email candidate, and a log whose first
\* message is the loan system prompt and that holds the welcome prompt nowhere;
\* this is so when it takes the log over and when it completes.
C15_SwitchResetsSession ==
    [][((current_agent = "welcome" /\ current_agent' # "welcome") \/ SwitchResumes) =>
           /\ current_agent' = "loan"
           /\ loan_flow_stage' = "awaiting_name"
           /\ collected_data' = EmptyData
           /\ ~email_sent_flag'
           /\ pending_email_candidate' = None
           /\ last_invalid_email_attempt' = None
           /\ messages'[1] = System(loan_system_prompt)
           /\ \A i \in 1..Len(messages') : messages'[i] # System(welcome_system_prompt)]_vars

\* switch_to_loan_agent has completed: the directive is popped, the note is on the log
C15_Witness ==
    /\ current_agent = "loan"
    /\ loan_flow_stage = "awaiting_name"
    /\ monitor_task = "sleeping"
    /\ messages = <<System(loan_system_prompt), System(intro_note)>>
    /\ "awaiting_name" \in nudged_stages

\* C16: the pass of the poller that forwards the call does nothing else: the
\* step that sets call_forwarded_flag or calls forward_call_to_agent leaves the
\* persona, the stage, collected_data, email_sent_flag, nudged_stages, the two
\* email candidates, the log and the poller's position as they were, and makes
\* no delivery call and no reminder, whatever else the turns of the log ask for.
C16_ForwardingPassDoesNothingElse ==
    [][(call_forwarded_flag' # call_forwarded_flag \/ forward_calls' # forward_calls) =>
           /\ current_agent' = current_agent
           /\ loan_flow_stage' = loan_flow_stage
           /\ collected_data' = collected_data
           /\ email_sent_flag' = email_sent_flag
           /\ nudged_stages' = nudged_stages
           /\ pending_email_candidate' = pending_email_candidate
           /\ last_invalid_email_attempt' = last_invalid_email_attempt
           /\ messages' = messages
           /\ monitor_task' = monitor_task
           /\ mail_calls' = mail_calls
           /\ reminders' = reminders
           /\ frames' = frames]_vars

\* the call was forwarded in the welcome persona although the caller had also
\* asked to apply: the persona is still welcome and the log is as it was
C16_Witness ==
    /\ call_forwarded_flag
    /\ Len(forward_calls) = 1
    /\ current_agent = "welcome"
    /\ loan_flow_stage = "null"
    /\ Contents(messages, "user") = <<said_ready_to_apply, said_want_human>>
    /\ start_requested(Contents(messages, "user"))

\* C17: forwarding does not end polling.  The step that sets call_forwarded_flag
\* leaves the poller at the sleep before its next pass, and with the flag set a
\* pass still runs the persona and stage logic: it switches persona on a start
\* request, stores the name it finds, and stores the zip code and calls
\* send_application_link when that completes the details.
C17_PollingGoesOnAfterForwarding ==
    [][LET user_messages == Contents(messages, "user")
           latest_user_text == Latest(user_messages)
       IN /\ (~call_forwarded_flag /\ call_forwarded_flag') => monitor_task' = "sleeping"
          /\ (/\ call_forwarded_flag
               /\ current_agent = "welcome"
               /\ \E i \in 1..Len(user_messages) : user_messages[i] = said_ready_to_apply
               /\ Tick)
                  => current_agent' = "loan"
          /\ (/\ call_forwarded_flag
               /\ current_agent = "loan" /\ loan_flow_stage = "awaiting_name"
               /\ collected_data.name = None /\ name_of[latest_user_text] # None
               /\ Tick)
                  => collected_data'.name = name_of[latest_user_text]
          /\ (/\ call_forwarded_flag
               /\ current_agent = "loan" /\ loan_flow_stage = "awaiting_zip"
               /\ collected_data.name # None /\ collected_data.email # None
               /\ collected_data.zip_code = None /\ ~email_sent_flag
               /\ zip_of[latest_user_text] # None
               /\ Tick)
                  => /\ collected_data'.zip_code = zip_of[latest_user_text]
                     /\ Len(mail_calls') = Len(mail_calls) + 1]_vars

\* the poller waits for the delivery it has started, in the loan persona, in a
\* call that was forwarded before that pass began
C17_Witness ==
    /\ call_forwarded_flag
    /\ Len(forward_calls) = 1
    /\ current_agent = "loan"
    /\ monitor_task = "sending"
    /\ Len(mail_calls) = 1

\* C18: without a support number, or without a call id, forwarding is off for
\* the whole call: forward_call_to_agent is never called and call_forwarded_flag
\* stays false, and the passes of the poller run the persona and stage logic
\* with a human-agent request on the log.
C18_ForwardingOffWhenUnconfigured ==
    (call_sid = None \/ support_phone_number = None) =>
        /\ forward_calls = <<>>
        /\ ~call_forwarded_flag

\* no support number: the loan persona has taken the caller's request for a
\* human agent as the answer to its question, and nothing was forwarded
C18_Witness ==
    /\ support_phone_number = None
    /\ current_agent = "loan"
    /\ Contents(messages, "user") = <<said_want_human>>
    /\ collected_data.name # None
    /\ collected_data.name = name_of[said_want_human]
    /\ ~call_forwarded_flag

\* C19: when the telephony client fails to redirect the call, the step that
\* called it still sets call_forwarded_flag, leaves the poller at the sleep
\* before its next pass and logs no exception of the loop; after a failed call
\* the flag stays set and no step calls forward_call_to_agent again.
C19_FailedForwardIsNotRetried ==
    [][/\ (/\ forward_calls' # forward_calls
           /\ ~forward_calls'[Len(forward_calls')].returned)
              => /\ call_forwarded_flag'
                 /\ monitor_task' = "sleeping"
                 /\ error_logged' = error_logged
       /\ (forward_calls # <<>> /\ ~forward_calls[1].returned)
              => /\ forward_calls' = forward_calls
                 /\ call_forwarded_flag /\ call_forwarded_flag']_vars

\* the redirect failed, and a later pass of the poller has begun the persona switch
C19_Witness ==
    /\ Len(forward_calls) = 1
    /\ ~forward_calls[1].returned
    /\ call_forwarded_flag
    /\ monitor_task = "switching"

\* C20: an exception raised in a pass of the poller does not end the poller.
\* The step that logs it takes the poller to the sleep of its handler, that
\* sleep ends at the sleep before the next pass, and the poller leaves its loop
\* only by being cancelled when the client disconnects.
C20_ExceptionDoesNotEndPoller ==
    [][LET InLoop == {"sleeping", "switching", "sending", "backoff"}
       IN /\ (error_logged' # error_logged) => monitor_task' = "backoff"
          /\ (monitor_task = "backoff" /\ monitor_task' # "backoff")
                => monitor_task' \in {"sleeping", "cancelled"}
          /\ (monitor_task \in InLoop /\ monitor_task' \notin InLoop)
                => /\ monitor_task' = "cancelled"
                   /\ client' = "disconnected"]_vars

\* an exception was logged earlier in the call, and a later pass of the poller
\* has begun the persona switch
C20_Witness ==
    /\ error_logged
    /\ monitor_task = "switching"
    /\ current_agent = "loan"

\* C21: on_client_disconnected cancels the poller, if one was started, and only
\* then queues EndFrame, also when no poller was started; once the client is
\* disconnected the poller is not in its loop, and no step sends the details,
\* forwards the call, switches persona or changes the session in any other way.
C21_DisconnectStopsPoller ==
    [][/\ (client # "disconnected" /\ client' = "disconnected") =>
              /\ monitor_task' = IF monitor_task = "none" THEN "none" ELSE "cancelled"
              /\ frames' = Append(frames, EndFrame)
       /\ client' = "disconnected" => monitor_task' \in {"none", "cancelled"}
       /\ client = "disconnected" =>
              /\ mail_calls' = mail_calls /\ mail_results' = mail_results
              /\ forward_calls' = forward_calls
              /\ session' = session
              /\ monitor_task' = monitor_task]_vars

\* the client left while the poller was waiting for the delivery: the poller is
\* cancelled, the call has no result, and EndFrame is the last frame queued
C21_Witness ==
    /\ client = "disconnected"
    /\ monitor_task = "cancelled"
    /\ Len(mail_calls) = 1 /\ mail_results = <<>>
    /\ ~email_sent_flag
    /\ frames[Len(frames)] = EndFrame

\* C22: the stage changes only to its immediate successor in the order null,
\* awaiting_name, awaiting_email, awaiting_zip, ready_to_send, completed: it
\* never moves backward, never skips a stage, and never leaves completed.
C22_StageMovesToItsSuccessor ==
    [][loan_flow_stage' # loan_flow_stage =>
           <<loan_flow_stage, loan_flow_stage'>> \in
               {<<"null", "awaiting_name">>,
                <<"awaiting_name", "awaiting_email">>,
                <<"awaiting_email", "awaiting_zip">>,
                <<"awaiting_zip", "ready_to_send">>,
                <<"ready_to_send", "completed">>}]_vars

\* the flow has gone through every stage and the poller passes over completed
C22_Witness ==
    /\ loan_flow_stage = "completed"
    /\ mail_results = <<TRUE>>
    /\ monitor_task = "sleeping"
    /\ client = "connected"

\* C23: the stage becomes completed only as the result of a delivery that
\* reported success; after a failed delivery the stage is still ready_to_send.
C23_CompletedOnlyAfterSuccess ==
    loan_flow_stage = "completed" =>
        \E i \in 1..Len(mail_results) : mail_results[i]

\* C24: send_application_link fails closed.  Without an api key it returns
\* false and makes no request to the provider; with one it makes one request
\* and returns true exactly when the provider answers 202, and false for any
\* other status and for a request that fails or times out; every call that is
\* not in flight has returned a value, so none has raised.
C24_DeliveryFailsClosed ==
    /\ Len(mail_results) = IF monitor_task = "sending" THEN Len(mail_calls) - 1
                           ELSE Len(mail_calls)
    /\ ~api_key => /\ mail_posts = <<>>
                   /\ \A i \in 1..Len(mail_results) : ~mail_results[i]
    /\ api_key => /\ Len(mail_posts) = Len(mail_results)
                  /\ \A i \in 1..Len(mail_results) : mail_results[i] = (mail_posts[i] = 202)

\* a delivery attempted without an api key: false, and no request made
C24_Witness ==
    /\ ~api_key
    /\ Len(mail_calls) = 1
    /\ mail_results = <<FALSE>>
    /\ mail_posts = <<>>

\* C25: in stage awaiting_email an address stated by the assistant is stored
\* only on the caller's reply to it: when a pass stores an address that the
\* latest user turn does not contain, that user turn comes after the latest
\* assistant turn that states the address.
C25_CommitOnlyOnReplyToRestatement ==
    [][LET stored == collected_data'.email
           said_after(i) == \E j \in (i + 1)..Len(messages) : messages[j].role = "user"
       IN (/\ collected_data.email = None /\ stored # None
           /\ email_of[Latest(Contents(messages, "user"))] = None)
              => \E i \in 1..Len(messages) :
                     /\ messages[i].role = "assistant"
                     /\ email_of[messages[i].content] = stored
                     /\ said_after(i)]_vars

\* C26: in stage awaiting_zip the pass takes the first value found among the
\* zip code of the latest user turn, that of the latest assistant turn, and the
\* fallback pattern on each of the two; it stores the value, sets the stage
\* ready_to_send and calls check_and_send_email in the same pass, which calls
\* send_application_link when the details are complete and unsent.  A pass
\* that finds no value leaves zip_code empty and the stage awaiting_zip.
C26_ZipStoredAndSentInOnePass ==
    [][LET latest_user_text == Latest(Contents(messages, "user"))
           latest_assistant_text == Latest(Contents(messages, "assistant"))
           attempts == <<zip_of[latest_user_text], zip_of[latest_assistant_text],
                         alt_zip_of[latest_user_text], alt_zip_of[latest_assistant_text]>>
           hits == {i \in 1..4 : attempts[i] # None}
       IN (/\ current_agent = "loan" /\ loan_flow_stage = "awaiting_zip"
           /\ collected_data.zip_code = None
           /\ Tick)
              => IF hits = {}
                 THEN /\ collected_data' = collected_data
                      /\ loan_flow_stage' = "awaiting_zip"
                      /\ mail_calls' = mail_calls
                 ELSE /\ collected_data'.zip_code = attempts[Min(hits)]
                      /\ loan_flow_stage' = "ready_to_send"
                      /\ IF /\ ~email_sent_flag
                            /\ collected_data.name # None /\ collected_data.email # None
                         THEN /\ Len(mail_calls') = Len(mail_calls) + 1
                              /\ monitor_task' = "sending"
                         ELSE mail_calls' = mail_calls]_vars

\* the zip code came from the fallback pattern on the caller's turn, which the
\* extractor does not read as a zip code, and the delivery call is in flight
C26_Witness ==
    /\ zip_of[said_zip_glued] = None
    /\ collected_data.zip_code = alt_zip_of[said_zip_glued]
    /\ collected_data.zip_code = <<"1","0","0","0","1">>
    /\ loan_flow_stage = "ready_to_send"
    /\ monitor_task = "sending"
    /\ Len(mail_calls) = 1

\* C27: in the welcome persona a pass that does not take the forwarding step
\* switches to the loan persona exactly when the caller has asked, in any of
\* the user turns of the log, to start the application ("I am ready to apply",
\* the one text of the callers that a start-application pattern matches) or
\* the latest assistant turn holds the name of the loan persona; a pass with
\* neither changes nothing: not the session, not the log, nothing it sends.
C27_WelcomePassSwitchesOnIntentOrHandoff ==
    [][LET user_messages == Contents(messages, "user")
           latest_assistant_text == Latest(Contents(messages, "assistant"))
           wanted == \/ \E i \in 1..Len(user_messages) : user_messages[i] = said_ready_to_apply
                     \/ names_loan_agent[latest_assistant_text]
       IN (/\ current_agent = "welcome"
           /\ monitor_task = "sleeping"
           /\ call_forwarded_flag' = call_forwarded_flag
           /\ Tick)
              => IF wanted
                 THEN /\ current_agent' = "loan"
                      /\ loan_flow_stage' = "awaiting_name"
                      /\ monitor_task' = "switching"
                 ELSE UNCHANGED <<messages, session, effects>>]_vars

\* the switch is under way in a call in which forwarding was possible and was
\* not done
C27_Witness ==
    /\ current_agent = "loan"
    /\ monitor_task = "switching"
    /\ ~call_forwarded_flag /\ call_sid # None /\ support_phone_number # None
    /\ forward_calls = <<>>

\* C28: a stage gets at most one reminder in the whole call: every step keeps
\* the reminders issued so far and the stages of nudged_stages, the persona
\* switch included, and a reminder it adds is for a stage that was not in
\* nudged_stages and had no reminder yet, whichever branch of the pass asked for
\* it.
C28_OneReminderPerStage ==
    [][/\ nudged_stages \subseteq nudged_stages'
       /\ Len(reminders') >= Len(reminders)
       /\ SubSeq(reminders', 1, Len(reminders)) = reminders
       /\ \A i \in (Len(reminders) + 1)..Len(reminders') :
              /\ reminders'[i].stage \notin nudged_stages
              /\ reminders'[i].stage \in nudged_stages'
              /\ \A j \in 1..(i - 1) : reminders'[j].stage # reminders'[i].stage]_vars

\* stage awaiting_email after a second invalid address from the caller and with
\* the assistant saying it sent the email: the stage has its one reminder
C28_Witness ==
    /\ loan_flow_stage = "awaiting_email"
    /\ Contents(messages, "user") = <<said_ready_to_apply, said_long_email, said_other_long_email>>
    /\ last_invalid_email_attempt = email_of[said_other_long_email]
    /\ Cardinality({i \in 1..Len(reminders) : reminders[i].stage = "awaiting_email"}) = 1
    /\ nudged_stages = {"awaiting_name", "awaiting_email"}
    /\ monitor_task = "sleeping"

\* C29: the step in which nudge_stage issues a reminder for a stage leaves that
\* stage's reminder text on the log, as a system message, for the next
\* response of the language model.
C29_ReminderReachesTheLog ==
    [][Len(reminders') > Len(reminders) =>
           \E i \in 1..Len(messages') :
               messages'[i] = System(reminders'[Len(reminders')].reminder)]_vars

\* C30: the forwarding step is taken only on a request of the caller for a human
\* agent or on an assistant acknowledgment of a handoff to a human ("I'll connect
\* you with one of our agents right away."); an acknowledgment whose turn names the loan persona
\* and says "loan specialist" ("I'll connect you with our agent Blake, the loan
\* specialist") does not forward the call.
C30_LoanHandoffIsNotForwarded ==
    [][(~call_forwarded_flag /\ call_forwarded_flag') =>
           LET user_messages == Contents(messages, "user")
               assistant_messages == Contents(messages, "assistant")
           IN \/ \E i \in 1..Len(user_messages) : user_messages[i] = said_want_human
              \/ \E i \in 1..Len(assistant_messages) : assistant_messages[i] = replied_human_ack]_vars

C32_ZipIsFiveDigits ==
    LET five_digits(zip) == Len(zip) = 5 /\ \A i \in 1..Len(zip) : zip[i] \in Digits
    IN /\ \A text \in Texts : zip_of[text] # None => five_digits(zip_of[text])
       /\ zip_of[said_zip] = <<"3","3","1","4","1">>
       /\ zip_of[said_long_number] = <<"6","0","6","0","1">>
       /\ zip_of[said_short_zip] = None
       /\ collected_data.zip_code # None => five_digits(collected_data.zip_code)

\* the zip code stored is the first five digits of the numerals "6060" and "12"
C32_Witness ==
    /\ Latest(Contents(messages, "user")) = said_long_number
    /\ collected_data.zip_code = <<"6","0","6","0","1">>
    /\ loan_flow_stage \in {"ready_to_send", "completed"}

\* C33: the address extract_email_from_text finds in a spoken address is the
\* canonical one with nothing of the words around it: "it's jane dot smith at
\* gmail dot com" gives jane.smith@gmail.com, and that is the only address a
\* call of the catalogue ever stores.
C33_SpokenEmailIsCanonical ==
    LET canonical == <<"j","a","n","e",".","s","m","i","t","h","@","g","m","a","i","l",".","c","o","m">>
    IN /\ collected_data.email # None => collected_data.email = canonical
       /\ Latest(Contents(messages, "user")) = said_email => email_of[said_email] = canonical

\* C34: a name stored in collected_data is one to three capitalized words, each
\* beginning with a capital letter; a latest user turn without capitalized words
\* ("I am ready to apply") stores no name.
C34_StoredNameIsCapitalizedWords ==
    LET name == collected_data.name
        starts == {1} \cup {i \in 2..Len(name) : name[i - 1] = " "}
    IN name # None =>
           /\ \A i \in starts : name[i] \in UpperLetters
           /\ Cardinality(starts) \in 1..3

\* C35: when the decisions of a response hold a denial ("Denied" or "Declined")
\* the outcome read from it is a denial, whatever approvals and manual reviews
\* come with it, and the applicant is not sent the approval.
C35_DenialBeatsApproval ==
    LET decisions == collect_decisions(application.payload)
        denials == {DecisionTexts.denied, DecisionTexts.declined}
    IN (/\ application.step \in {"parsed", "answered"}
        /\ \E i \in 1..Len(decisions) : decisions[i].decision \in denials)
           => /\ application.outcome \in denials
              /\ application.notification # "approval"

\* C36: the stage and the details collected agree in every state: there is no
\* stage exactly in the welcome persona; in awaiting_name no name is stored; in
\* awaiting_email the name is stored and no email; in awaiting_zip name and
\* email are stored and no zip code; in ready_to_send and completed all three
\* are stored.  So a pass in the loan persona always takes one of the steps of
\* its stage and never comes to the call of check_and_send_email after them.
C36_StageAgreesWithData ==
    LET has(field) == collected_data[field] # None
    IN /\ loan_flow_stage = "null" <=> current_agent = "welcome"
       /\ loan_flow_stage = "awaiting_name" => ~has("name")
       /\ loan_flow_stage = "awaiting_email" => has("name") /\ ~has("email")
       /\ loan_flow_stage = "awaiting_zip" => has("name") /\ has("email") /\ ~has("zip_code")
       /\ loan_flow_stage \in {"ready_to_send", "completed"}
              => has("name") /\ has("email") /\ has("zip_code")
       /\ current_agent = "loan" =>
              \/ loan_flow_stage = "awaiting_name" /\ ~has("name")
              \/ loan_flow_stage = "awaiting_email" /\ ~has("email")
              \/ loan_flow_stage = "awaiting_zip" /\ ~has("zip_code")
              \/ loan_flow_stage \in {"ready_to_send", "completed"}

\* the flow is complete with the three details stored
C36_Witness ==
    /\ loan_flow_stage = "completed"
    /\ collected_data.name # None /\ collected_data.email # None /\ collected_data.zip_code # None
    /\ current_agent = "loan"
    /\ client = "connected"

\* C37: whenever the poller is between two passes email_sent_flag is set exactly
\* when the stage is completed; stage ready_to_send with the flag not set is
\* seen only while the delivery call is in flight or after the poller was
\* cancelled in it.
C37_FlagIffCompleted ==
    /\ monitor_task = "sleeping" => (email_sent_flag <=> loan_flow_stage = "completed")
    /\ (loan_flow_stage = "ready_to_send" /\ ~email_sent_flag) =>
           \/ monitor_task = "sending"
           \/ /\ monitor_task = "cancelled"
              /\ Len(mail_calls) = Len(mail_results) + 1
    /\ email_sent_flag <=> loan_flow_stage = "completed"

\* the poller is between two passes after the delivery: flag set, stage completed
C37_Witness ==
    /\ monitor_task = "sleeping"
    /\ email_sent_flag
    /\ loan_flow_stage = "completed"
    /\ Len(mail_results) = 1

\* C38: when the delivery call raises, the handler of the loop logs it and the
\* poller sleeps; email_sent_flag stays unset, the stage stays ready_to_send and
\* the call has no result.  The next pass calls send_application_link again
\* with the same details.  The flag is set only by a step in which a delivery
\* call returns.
C38_RaisedDeliveryIsRetried ==
    [][/\ (monitor_task = "sending" /\ monitor_task' = "backoff")
              => /\ error_logged'
                 /\ ~email_sent_flag'
                 /\ loan_flow_stage' = "ready_to_send"
                 /\ mail_results' = mail_results
                 /\ collected_data' = collected_data
       /\ (/\ loan_flow_stage = "ready_to_send" /\ ~email_sent_flag
           /\ monitor_task = "sleeping"
           /\ Tick)
              => /\ Len(mail_calls') = Len(mail_calls) + 1
                 /\ mail_calls'[Len(mail_calls')] = mail_calls[Len(mail_calls)]
                 /\ monitor_task' = "sending"
       /\ (~email_sent_flag /\ email_sent_flag')
              => /\ monitor_task = "sending"
                 /\ Len(mail_results') = Len(mail_results) + 1]_vars

\* the first delivery call raised, the second was made with the same details
\* and returned
C38_Witness ==
    /\ error_logged
    /\ Len(mail_calls) = 2 /\ mail_calls[1] = mail_calls[2]
    /\ Len(mail_results) = 1
    /\ email_sent_flag
    /\ loan_flow_stage = "completed"

\* C39: a step stores at most one of name, email and zip code, and the one it
\* stores is the one of the stage it starts in: the name in awaiting_name, the
\* email in awaiting_email, the zip code in awaiting_zip; so a latest user turn
\* that holds all three ("My name is Ann Lee, ann.lee@gmail.com, zip 60601") has
\* them stored by three passes, one each, in that order.  A step that changes
\* the persona stores none.
C39_OneFieldPerPass ==
    [][LET fields == {"name", "email", "zip_code"}
           stored == {f \in fields : collected_data'[f] # collected_data[f]}
           due == IF loan_flow_stage = "awaiting_name" THEN {"name"}
                  ELSE IF loan_flow_stage = "awaiting_email" THEN {"email"}
                  ELSE IF loan_flow_stage = "awaiting_zip" THEN {"zip_code"}
                  ELSE {}
       IN /\ Cardinality(stored) <= 1
          /\ stored \subseteq due
          /\ \A f \in stored : collected_data[f] = None
          /\ current_agent' # current_agent => collected_data' = EmptyData]_vars

\* the three details of the one turn, which no session starts with, are stored
\* and their delivery is under way
C39_Witness ==
    /\ Latest(Contents(messages, "user")) = said_everything
    /\ collected_data.name = <<"A","n","n"," ","L","e","e">>
    /\ collected_data.email = <<"a","n","n",".","l","e","e","@","g","m","a","i","l",".","c","o","m">>
    /\ collected_data.zip_code = <<"6","0","6","0","1">>
    /\ monitor_task = "sending"

\* C40: the part of switch_to_loan_agent that runs after the frames are queued
\* puts awaiting_name into nudged_stages, so once the switch is over the stage
\* is among the nudged ones, and no step taken in the loan persona in stage
\* awaiting_name after the switch adds a reminder or a nudged stage: a pass
\* that finds no name in the latest user turn emits nothing.
C40_SwitchConsumesNameNudge ==
    [][/\ monitor_task = "switching" /\ monitor_task' = "sleeping"
           => "awaiting_name" \in nudged_stages'
       /\ current_agent = "loan" /\ loan_flow_stage = "awaiting_name"
          /\ monitor_task \notin {"none", "switching"}
           => /\ "awaiting_name" \in nudged_stages
              /\ reminders' = reminders
              /\ nudged_stages' = nudged_stages]_vars

\* after the switch, in stage awaiting_name, the poller is about to read a
\* latest user turn that holds no name, and the only reminder issued so far is
\* the one the switch issued
C40_Witness ==
    /\ current_agent = "loan"
    /\ loan_flow_stage = "awaiting_name"
    /\ monitor_task = "sleeping"
    /\ client = "connected"
    /\ ~call_forwarded_flag
    /\ Contents(messages, "user") # <<>>
    /\ name_of[Latest(Contents(messages, "user"))] = None
    /\ Len(reminders) = 1
    /\ reminders[1].stage = "awaiting_name"

====
